---- MODULE Spec2Model ----
(***************************************************************************)
(* Configuration persistence of the MXChip AZ3166 firmware                 *)
(* (src/MXChip/AZ3166/app/config_manager.c and its caller main.c).         *)
(*                                                                         *)
(* A device_config_t is modelled as what it is in memory: a sequence of    *)
(* bytes with the fields at their struct offsets.  The flash region that   *)
(* holds the persisted copy is a sequence of bytes of the same size.       *)
(* config_manager.c is checked in with unresolved merge markers; the model *)
(* follows the HEAD side of every conflict.  The four preprocessor         *)
(* switches at the top of the file select the storage backend; the model   *)
(* carries them in the variable build, fixed at start-up.                  *)
(***************************************************************************)
EXTENDS Integers, Sequences, FiniteSets

(***************************************************************************)
(* Bounds of the model.                                                    *)
(***************************************************************************)
\* Capacity in bytes of every text field of device_config_t (64, and 32
\* for mqtt_username, in config_manager.h), scaled down.
TextCap == 2
\* Number of hardware faults in a run: a HAL operation (unlock, erase, program)
\* that fails, or a bit of the flash region that flips.
MaxFaults == 1

(***************************************************************************)
(* Bytes and 32-bit words.  A word is kept as its four bytes in memory     *)
(* order (little endian, Cortex-M4).                                       *)
(***************************************************************************)
Byte == 0..255

RECURSIVE BitAnd(_, _, _)
\* a & b on n-bit naturals
BitAnd(a, b, n) ==
    IF n = 0 THEN 0
    ELSE (IF a % 2 = 1 /\ b % 2 = 1 THEN 1 ELSE 0)
         + 2 * BitAnd(a \div 2, b \div 2, n - 1)

RECURSIVE BitXor(_, _, _)
\* a ^ b on n-bit naturals
BitXor(a, b, n) ==
    IF n = 0 THEN 0
    ELSE ((a + b) % 2) + 2 * BitXor(a \div 2, b \div 2, n - 1)

\* The value of a uint16_t and of a uint32_t below 2^31, from its bytes.
U16(w) == w[1] + 256 * w[2]
U32(w) == w[1] + 256 * w[2] + 65536 * w[3] + 16777216 * w[4]

\* The four bytes of a value below 2^31, least significant first.
LE32(x) == << x % 256, (x \div 256) % 256, (x \div 65536) % 256, x \div 16777216 >>
\* The two bytes of a uint16_t.
LE16(x) == << x % 256, (x \div 256) % 256 >>

Fill(n, v) == [i \in 1..n |-> v]

\* strncpy(dst, src, n) into a field that memset has zeroed, seen as the n
\* bytes it writes: src up to its terminator, then NUL padding.
StrNCpy(src, n) == [i \in 1..n |-> IF i <= Len(src) THEN src[i] ELSE 0]

(***************************************************************************)
(* config_manager.h: the layout of device_config_t.                        *)
(***************************************************************************)
CONFIG_SSID_MAX_LEN      == TextCap
CONFIG_PASSWORD_MAX_LEN  == TextCap
CONFIG_HOSTNAME_MAX_LEN  == TextCap
CONFIG_USERNAME_MAX_LEN  == TextCap
CONFIG_CLIENT_ID_MAX_LEN == TextCap

AlignUp(x, a) == ((x + a - 1) \div a) * a

OffMagic        == 0
OffVersion      == OffMagic + 4
OffWifiSsid     == OffVersion + 4
OffWifiPassword == OffWifiSsid + CONFIG_SSID_MAX_LEN
OffWifiMode     == AlignUp(OffWifiPassword + CONFIG_PASSWORD_MAX_LEN, 4)
OffMqttHostname == OffWifiMode + 4
OffMqttPort     == AlignUp(OffMqttHostname + CONFIG_HOSTNAME_MAX_LEN, 2)
OffMqttClientId == OffMqttPort + 2
OffMqttUsername == OffMqttClientId + CONFIG_CLIENT_ID_MAX_LEN
OffMqttPassword == OffMqttUsername + CONFIG_USERNAME_MAX_LEN
OffTelemetry    == AlignUp(OffMqttPassword + CONFIG_PASSWORD_MAX_LEN, 4)
OffCrc32        == OffTelemetry + 4
SizeofConfig    == OffCrc32 + 4

\* The bytes of a field: n bytes from offset off.
Field(cfg, off, n) == [i \in 1..n |-> cfg[off + i]]
\* cfg with the n bytes from offset off replaced by val.
SetField(cfg, off, val) ==
    [i \in 1..Len(cfg) |->
        IF i > off /\ i <= off + Len(val) THEN val[i - off] ELSE cfg[i]]

magic(cfg)              == Field(cfg, OffMagic, 4)
version(cfg)            == Field(cfg, OffVersion, 4)
wifi_ssid(cfg)          == Field(cfg, OffWifiSsid, CONFIG_SSID_MAX_LEN)
mqtt_hostname(cfg)      == Field(cfg, OffMqttHostname, CONFIG_HOSTNAME_MAX_LEN)
mqtt_client_id(cfg)     == Field(cfg, OffMqttClientId, CONFIG_CLIENT_ID_MAX_LEN)
mqtt_username(cfg)      == Field(cfg, OffMqttUsername, CONFIG_USERNAME_MAX_LEN)
telemetry_interval(cfg) == Field(cfg, OffTelemetry, 4)
crc32(cfg)              == Field(cfg, OffCrc32, 4)
\* Everything before the crc32 field.
Payload(cfg)            == Field(cfg, 0, OffCrc32)

\* memset(&cfg, 0, sizeof(device_config_t))
ZeroConfig == Fill(SizeofConfig, 0)

(***************************************************************************)
(* config_manager.c: constants.                                            *)
(***************************************************************************)
\* 0xDEADBEEF
CONFIG_MAGIC == << 239, 190, 173, 222 >>
CONFIG_VERSION == 1

(***************************************************************************)
(* The records callers pass to save.                                       *)
(***************************************************************************)
\* A record with the given header, required text fields and interval; the
\* other fields are zero.  Text arguments are the characters before the NUL.
MkConfig(mg, ver, ssid, host, client, interval) ==
    LET c1 == SetField(ZeroConfig, OffMagic, mg)
        c2 == SetField(c1, OffVersion, ver)
        c3 == SetField(c2, OffWifiSsid, ssid)
        c4 == SetField(c3, OffMqttHostname, host)
        c5 == SetField(c4, OffMqttClientId, client)
    IN  SetField(c5, OffTelemetry, LE32(interval))

\* Two usable records that differ in every required field.
RecA == MkConfig(CONFIG_MAGIC, LE32(CONFIG_VERSION), << 97 >>, << 104 >>, << 99 >>, 10)
RecB == MkConfig(CONFIG_MAGIC, LE32(CONFIG_VERSION), << 98 >>, << 105 >>, << 100 >>, 3600)
\* RecA with a header that was never set.
RecBadMagic == SetField(RecA, OffMagic, LE32(0))
\* RecA with wifi_ssid filled to its capacity, no terminator.
RecUnterminated == SetField(RecA, OffWifiSsid, Fill(CONFIG_SSID_MAX_LEN, 120))
\* RecA with a telemetry interval below the allowed range.
RecInterval0 == SetField(RecA, OffTelemetry, LE32(0))
SaveInputs == { RecA, RecB, RecBadMagic, RecUnterminated, RecInterval0 }

(***************************************************************************)
(* calculate_crc32: reflected CRC-32, polynomial 0xEDB88320, bit by bit.   *)
(* The 32-bit register is the pair <<hi, lo>> of its 16-bit halves.        *)
(***************************************************************************)
\* The bit of weight p of x, at its weight.
BitAt(x, p) == ((x \div p) % 2) * p

\* hi ^ 0xEDB8 and lo ^ 0x8320, the halves of the polynomial 0xEDB88320:
\* x ^ c = x + c - 2 * (x & c), with x & c summed over the bits set in c.
XorPolyHi(hi) ==
    hi + 60856
    - 2 * (BitAt(hi, 32768) + BitAt(hi, 16384) + BitAt(hi, 8192) + BitAt(hi, 2048)
           + BitAt(hi, 1024) + BitAt(hi, 256) + BitAt(hi, 128) + BitAt(hi, 32)
           + BitAt(hi, 16) + BitAt(hi, 8))
XorPolyLo(lo) ==
    lo + 33568 - 2 * (BitAt(lo, 32768) + BitAt(lo, 512) + BitAt(lo, 256) + BitAt(lo, 32))

\* One pass of the inner loop: if (crc & 1) crc = (crc >> 1) ^ 0xEDB88320
\*                             else crc = crc >> 1
CrcShift(c) ==
    LET hi == c[1] \div 2
        lo == (c[2] \div 2) + (c[1] % 2) * 32768
    IN  IF c[2] % 2 = 1 THEN << XorPolyHi(hi), XorPolyLo(lo) >> ELSE << hi, lo >>

RECURSIVE CrcBits(_, _)
\* for (int j = 0; j < 8; j++)   (the test on n makes TLC evaluate it here)
CrcBits(c, j) ==
    IF j = 0 THEN c
    ELSE LET n == CrcShift(c) IN IF n[1] >= 0 THEN CrcBits(n, j - 1) ELSE n

\* crc ^= data[i], then the eight bit steps
CrcByte(c, b) ==
    CrcBits(<< c[1], (c[2] \div 256) * 256 + BitXor(c[2] % 256, b, 8) >>, 8)

RECURSIVE CrcLoop(_, _, _)
\* for (size_t i = 0; i < length; i++)
CrcLoop(c, data, i) ==
    IF i > Len(data) THEN c
    ELSE LET n == CrcByte(c, data[i]) IN IF n[1] >= 0 THEN CrcLoop(n, data, i + 1) ELSE n

\* The result ~crc, as the four bytes of the uint32_t.
Crc32Bitwise(data) ==
    LET c  == CrcLoop(<< 65535, 65535 >>, data, 1)
        hi == 65535 - c[1]
        lo == 65535 - c[2]
    IN  << lo % 256, lo \div 256, hi % 256, hi \div 256 >>

\* The checksums of the save inputs as they go to flash (magic and version
\* set), computed once: a table of values of Crc32Bitwise, nothing else.
Crc32Known ==
    [d \in { Field(SetField(SetField(c, OffMagic, CONFIG_MAGIC), OffVersion,
                            LE32(CONFIG_VERSION)), 0, SizeofConfig - 4) : c \in SaveInputs }
        |-> Crc32Bitwise(d)]

calculate_crc32(data) ==
    IF data \in DOMAIN Crc32Known THEN Crc32Known[data] ELSE Crc32Bitwise(data)


(***************************************************************************)
(* validate_config (operational) and config_manager_validate (structural). *)
(***************************************************************************)
\* strlen(field) == 0
StrEmpty(text) == text[1] = 0

\* A variant with the limits themselves out of range.
IntervalOutOfRange_exclusive(w) ==
    \/ w[3] # 0
    \/ w[4] # 0
    \/ w[1] + 256 * w[2] <= 1
    \/ w[1] + 256 * w[2] >= 3600

\* telemetry_interval < 1 || telemetry_interval > 3600, on the bytes of the
\* uint32_t
IntervalOutOfRange(w) ==
    \/ w[3] # 0
    \/ w[4] # 0
    \/ w[1] + 256 * w[2] < 1
    \/ w[1] + 256 * w[2] > 3600


validate_config(cfg) ==
    IF StrEmpty(wifi_ssid(cfg)) THEN FALSE
    ELSE IF StrEmpty(mqtt_hostname(cfg)) THEN FALSE
    ELSE IF StrEmpty(mqtt_client_id(cfg)) THEN FALSE
    ELSE IF IntervalOutOfRange(telemetry_interval(cfg)) THEN FALSE
    ELSE TRUE

config_manager_validate(cfg) ==
    IF magic(cfg) # CONFIG_MAGIC \/ version(cfg) # LE32(CONFIG_VERSION) THEN FALSE
    ELSE TRUE

(***************************************************************************)
(* The flash region at CONFIG_FLASH_ADDRESS / EEPROM_START_ADDRESS and the *)
(* vendor HAL that programs it.  The HAL is not part of the repository:    *)
(* it is modelled as NOR flash behaves (spec 4.3): programming can only    *)
(* clear bits, a sector erase sets every bit, and any operation may fail,  *)
(* which is what the callers test for.  A medium state is the record       *)
(* [flash, locked].                                                        *)
(***************************************************************************)
HAL_OK    == "HAL_OK"
HAL_ERROR == "HAL_ERROR"

RegionSize == AlignUp(SizeofConfig, 4)
ErasedRegion == Fill(RegionSize, 255)

\* Which HAL operation of a call fails, if any.
NoFault == [kind |-> "none", word |-> 0]
\* Programming is made to fail at the word that holds wifi_ssid (the header
\* is written, the payload is not) and at the last word (crc32).
FaultWords == { OffWifiSsid \div 4, RegionSize \div 4 - 1 }
HalFaults ==
    { [kind |-> "unlock", word |-> 0], [kind |-> "erase", word |-> 0] }
    \cup { [kind |-> "program", word |-> k] : k \in FaultWords }

\* HAL_FLASH_Program(FLASH_TYPEPROGRAM_WORD, base + off, word) that succeeds
HAL_FLASH_Program(fl, off, word) ==
    [i \in 1..Len(fl) |->
        IF i > off /\ i <= off + 4 THEN BitAnd(fl[i], word[i - off], 8) ELSE fl[i]]

\* HAL_FLASHEx_Erase of the sector, seen on the region
HAL_FLASHEx_Erase(fl) == [i \in 1..Len(fl) |-> 255]

\* HAL_FLASH_Unlock() that succeeds, and HAL_FLASH_Lock(): the LOCK bit of
\* the flash controller.  An unlock that fails leaves the bit set.
HAL_FLASH_Unlock(m) == [m EXCEPT !.locked = FALSE]
HAL_FLASH_Lock(m) == [m EXCEPT !.locked = TRUE]

(***************************************************************************)
(* EEPROM emulation (USE_EEPROM_EMULATION).                                *)
(***************************************************************************)
\* uint32_t word_data = 0xFFFFFFFF; memcpy(&word_data, &data[i], bytes_to_copy)
EepromWord(data, size, i) ==
    [j \in 1..4 |-> IF i + j <= size THEN data[i + j] ELSE 255]

RECURSIVE EepromWriteLoop(_, _, _, _, _)
\* for (i = 0; i < size; i += 4) { program; if (status != HAL_OK) break; }
EepromWriteLoop(fl, data, size, i, f) ==
    IF i >= size THEN [flash |-> fl, status |-> HAL_OK, ops |-> 0]
    ELSE IF f.kind = "program" /\ f.word = i \div 4
         THEN [flash |-> fl, status |-> HAL_ERROR, ops |-> 1]
         ELSE LET r == EepromWriteLoop(HAL_FLASH_Program(fl, i, EepromWord(data, size, i)),
                                       data, size, i + 4, f)
              IN  [r EXCEPT !.ops = @ + 1]

\* A variant that returns from inside the loop when programming a word
\* fails, without HAL_FLASH_Lock().
eeprom_write_data_returns_unlocked(m, data, size, f) ==
    IF f.kind = "unlock"
    THEN [m |-> m, status |-> HAL_ERROR, ops |-> 1]
    ELSE LET unlocked == HAL_FLASH_Unlock(m)
             r == EepromWriteLoop(unlocked.flash, data, size, 0, f)
             programmed == [unlocked EXCEPT !.flash = r.flash]
         IN  IF r.status # HAL_OK
             THEN [m |-> programmed, status |-> r.status, ops |-> r.ops + 1]
             ELSE [m |-> HAL_FLASH_Lock(programmed), status |-> r.status,
                   ops |-> r.ops + 2]

\* HAL_FLASH_Unlock(); the loop, left by break on a failure; HAL_FLASH_Lock();
\* return status
eeprom_write_data(m, data, size, f) ==
    IF f.kind = "unlock"
    THEN [m |-> m, status |-> HAL_ERROR, ops |-> 1]
    ELSE LET unlocked == HAL_FLASH_Unlock(m)
             r == EepromWriteLoop(unlocked.flash, data, size, 0, f)
         IN  [m |-> HAL_FLASH_Lock([unlocked EXCEPT !.flash = r.flash]),
              status |-> r.status, ops |-> r.ops + 2]

\* memcpy(data, (void*)address, size); return HAL_OK
eeprom_read_data(m, off, size) == Field(m.flash, off, size)

\* A variant that reads the whole record into the caller's buffer before it
\* looks at the header.
eeprom_read_config_copies_first(m, config) ==
    LET whole == eeprom_read_data(m, 0, SizeofConfig)
    IN  IF magic(whole) # CONFIG_MAGIC
        THEN [result |-> "CONFIG_ERROR_NOT_FOUND", config |-> whole, reads |-> 1,
              checks |-> << "magic" >>]
        ELSE IF version(whole) # LE32(CONFIG_VERSION)
        THEN [result |-> "CONFIG_ERROR_NOT_FOUND", config |-> whole, reads |-> 1,
              checks |-> << "magic", "version" >>]
        ELSE [result |-> "CONFIG_OK", config |-> whole, reads |-> 1,
              checks |-> << "magic", "version" >>]

\* config is the caller's buffer; it is written only by the last read.
eeprom_read_config(m, config) ==
    IF eeprom_read_data(m, OffMagic, 4) # CONFIG_MAGIC
    THEN [result |-> "CONFIG_ERROR_NOT_FOUND", config |-> config, reads |-> 1,
          checks |-> << "magic" >>]
    ELSE IF eeprom_read_data(m, OffVersion, 4) # LE32(CONFIG_VERSION)
    THEN [result |-> "CONFIG_ERROR_NOT_FOUND", config |-> config, reads |-> 2,
          checks |-> << "magic", "version" >>]
    ELSE [result |-> "CONFIG_OK",
          config |-> eeprom_read_data(m, 0, SizeofConfig), reads |-> 3,
          checks |-> << "magic", "version" >>]

eeprom_write_config(m, config, f) ==
    LET config_copy == SetField(SetField(config, OffMagic, CONFIG_MAGIC),
                                OffVersion, LE32(CONFIG_VERSION))
        w == eeprom_write_data(m, config_copy, SizeofConfig, f)
    IN  [m |-> w.m, ops |-> w.ops,
         result |-> IF w.status # HAL_OK THEN "CONFIG_ERROR_STORAGE" ELSE "CONFIG_OK"]

eeprom_erase_config(m, f) ==
    LET w == eeprom_write_data(m, ZeroConfig, SizeofConfig, f)
    IN  [m |-> w.m, ops |-> w.ops,
         result |-> IF w.status # HAL_OK THEN "CONFIG_ERROR_STORAGE" ELSE "CONFIG_OK"]

(***************************************************************************)
(* The word loop of config_manager_save and                                *)
(* config_manager_delayed_flash_write.                                     *)
(***************************************************************************)
\* data_word = 0xFFFFFFFF; for (i = 0; i < 4 && bytes_remaining > 0; i++)
\*   { if (i == 0) data_word = 0; data_word |= *src_data << (i * 8); ... }
DataWord(data, done) ==
    [j \in 1..4 |-> IF done + j <= Len(data) THEN data[done + j] ELSE 0]

RECURSIVE FlashProgramLoop(_, _, _, _)
\* while (bytes_remaining > 0): done bytes are behind src_data
FlashProgramLoop(fl, data, done, f) ==
    IF done >= Len(data) THEN [flash |-> fl, status |-> HAL_OK, ops |-> 0]
    ELSE IF f.kind = "program" /\ f.word = done \div 4
         THEN [flash |-> fl, status |-> HAL_ERROR, ops |-> 1]
         ELSE LET r == FlashProgramLoop(HAL_FLASH_Program(fl, done, DataWord(data, done)),
                                        data, done + 4, f)
              IN  [r EXCEPT !.ops = @ + 1]

\* magic, version and crc32 set in the copy that goes to flash
PrepareForFlash(config) ==
    LET c == SetField(SetField(config, OffMagic, CONFIG_MAGIC),
                      OffVersion, LE32(CONFIG_VERSION))
    IN  SetField(c, OffCrc32, calculate_crc32(Field(c, 0, SizeofConfig - 4)))

(***************************************************************************)
(* The configuration manager.  Its state is the record                     *)
(*   [ram, valid, dirty, m]                                                *)
(* of g_ram_config, g_ram_config_valid, g_config_needs_flash_save and the  *)
(* medium.  A build is the record of the four preprocessor switches.       *)
(***************************************************************************)
\* #if USE_DELAYED_FLASH_WRITE branch of config_manager_load
LoadDelayed(s, config) ==
    IF s.valid
    THEN [s |-> s, result |-> "CONFIG_OK", out |-> s.ram, reads |-> 0, checks |-> << >>]
    ELSE IF magic(s.m.flash) # CONFIG_MAGIC
    THEN [s |-> s, result |-> "CONFIG_ERROR_NOT_FOUND", out |-> config, reads |-> 1,
          checks |-> << "magic" >>]
    ELSE IF version(s.m.flash) # LE32(CONFIG_VERSION)
    THEN [s |-> s, result |-> "CONFIG_ERROR_NOT_FOUND", out |-> config, reads |-> 1,
          checks |-> << "magic", "version" >>]
    ELSE LET temp_config == Field(s.m.flash, 0, SizeofConfig)
         IN  IF crc32(temp_config) # calculate_crc32(Field(temp_config, 0, SizeofConfig - 4))
             THEN [s |-> s, result |-> "CONFIG_ERROR_NOT_FOUND", out |-> config, reads |-> 2,
                   checks |-> << "magic", "version", "crc32" >>]
             ELSE [s |-> [s EXCEPT !.ram = temp_config, !.valid = TRUE],
                   result |-> "CONFIG_OK", out |-> temp_config, reads |-> 2,
                   checks |-> << "magic", "version", "crc32" >>]

\* #if USE_EEPROM_EMULATION branch of config_manager_load
LoadEeprom(s, config) ==
    LET r == eeprom_read_config(s.m, config)
    IN  IF r.result = "CONFIG_OK"
        THEN [s |-> [s EXCEPT !.ram = r.config, !.valid = TRUE],
              result |-> "CONFIG_OK", out |-> r.config, reads |-> r.reads,
              checks |-> r.checks]
        ELSE IF s.valid
             THEN [s |-> s, result |-> "CONFIG_OK", out |-> s.ram, reads |-> r.reads,
                   checks |-> r.checks]
             ELSE [s |-> s, result |-> "CONFIG_ERROR_NOT_FOUND", out |-> r.config,
                   reads |-> r.reads, checks |-> r.checks]

\* A variant of the RAM-only branch that hands out g_ram_config without
\* looking at the flag.
LoadRamOnly_ignores_flag(s, config) ==
    [s |-> s, result |-> "CONFIG_OK", out |-> s.ram, reads |-> 0, checks |-> << >>]

\* RAM-only branch of config_manager_load
LoadRamOnly(s, config) ==
    IF s.valid
    THEN [s |-> s, result |-> "CONFIG_OK", out |-> s.ram, reads |-> 0, checks |-> << >>]
    ELSE [s |-> s, result |-> "CONFIG_ERROR_NOT_FOUND", out |-> config, reads |-> 0,
          checks |-> << >>]

\* #else branch (flash operations enabled) of config_manager_load
LoadFlash(s, config) ==
    LET flash_config == Field(s.m.flash, 0, SizeofConfig)
    IN  IF magic(flash_config) # CONFIG_MAGIC
        THEN [s |-> s, result |-> "CONFIG_ERROR_NOT_FOUND", out |-> config, reads |-> 1,
              checks |-> << "magic" >>]
        ELSE IF version(flash_config) # LE32(CONFIG_VERSION)
        THEN [s |-> s, result |-> "CONFIG_ERROR_NOT_FOUND", out |-> config, reads |-> 2,
              checks |-> << "magic", "version" >>]
        ELSE IF crc32(flash_config) # calculate_crc32(Field(flash_config, 0, SizeofConfig - 4))
        THEN [s |-> s, result |-> "CONFIG_ERROR_NOT_FOUND", out |-> config, reads |-> 3,
              checks |-> << "magic", "version", "crc32" >>]
        ELSE [s |-> s, result |-> "CONFIG_OK", out |-> flash_config, reads |-> 4,
              checks |-> << "magic", "version", "crc32" >>]

\* config is the caller's buffer as it is before the call, out as it is after.
config_manager_load(b, s, is_null, config) ==
    IF is_null
    THEN [s |-> s, result |-> "CONFIG_ERROR_INVALID", out |-> config, reads |-> 0,
          checks |-> << >>]
    ELSE IF b.USE_DELAYED_FLASH_WRITE THEN LoadDelayed(s, config)
    ELSE IF b.FLASH_OPERATIONS_DISABLED
         THEN IF b.USE_EEPROM_EMULATION THEN LoadEeprom(s, config)
              ELSE LoadRamOnly(s, config)
    ELSE LoadFlash(s, config)

\* A variant of the deferred branch that also writes the record through.
SaveDelayed_writes_through(s, config) ==
    LET w == eeprom_write_config(s.m, config, NoFault)
    IN  [s |-> [s EXCEPT !.m = w.m, !.ram = config, !.valid = TRUE, !.dirty = TRUE],
         result |-> "CONFIG_OK", ops |-> w.ops]

\* #if USE_DELAYED_FLASH_WRITE branch of config_manager_save
SaveDelayed(s, config) ==
    [s |-> [s EXCEPT !.ram = config, !.valid = TRUE, !.dirty = TRUE],
     result |-> "CONFIG_OK", ops |-> 0]

\* #if USE_EEPROM_EMULATION branch of config_manager_save
SaveEeprom(s, config, f) ==
    LET w == eeprom_write_config(s.m, config, f)
    IN  [s |-> [s EXCEPT !.m = w.m, !.ram = config, !.valid = TRUE],
         result |-> "CONFIG_OK", ops |-> w.ops]

\* RAM-only branch of config_manager_save
SaveRamOnly(s, config) ==
    [s |-> [s EXCEPT !.ram = config, !.valid = TRUE], result |-> "CONFIG_OK", ops |-> 0]

\* #else branch (flash operations enabled) of config_manager_save
SaveFlash(b, s, config, f) ==
    IF f.kind = "unlock"
    THEN [s |-> s, result |-> "CONFIG_ERROR_FLASH", ops |-> 1]
    ELSE IF ~b.FLASH_ERASE_DISABLED /\ f.kind = "erase"
    THEN [s |-> [s EXCEPT !.m = HAL_FLASH_Lock(HAL_FLASH_Unlock(s.m))],
          result |-> "CONFIG_ERROR_FLASH", ops |-> 3]
    ELSE LET unlocked == HAL_FLASH_Unlock(s.m)
             erased == IF b.FLASH_ERASE_DISABLED THEN unlocked.flash
                       ELSE HAL_FLASHEx_Erase(unlocked.flash)
             r == FlashProgramLoop(erased, PrepareForFlash(config), 0, f)
             n == r.ops + (IF b.FLASH_ERASE_DISABLED THEN 2 ELSE 3)
         IN  \* HAL_FLASH_Lock() before either return
             [s |-> [s EXCEPT !.m = HAL_FLASH_Lock([unlocked EXCEPT !.flash = r.flash])],
              result |-> IF r.status # HAL_OK THEN "CONFIG_ERROR_FLASH" ELSE "CONFIG_OK",
              ops |-> n]

\* ops counts the HAL operations (unlock, erase, program, lock) the call issued.
config_manager_save(b, s, is_null, config, f) ==
    IF is_null
    THEN [s |-> s, result |-> "CONFIG_ERROR_INVALID", ops |-> 0]
    ELSE IF b.USE_DELAYED_FLASH_WRITE THEN SaveDelayed(s, config)
    ELSE IF b.FLASH_OPERATIONS_DISABLED
         THEN IF b.USE_EEPROM_EMULATION THEN SaveEeprom(s, config, f)
              ELSE SaveRamOnly(s, config)
    ELSE SaveFlash(b, s, config, f)

\* A variant that clears the dirty flag as soon as the record has passed
\* validation, before the medium is touched.
delayed_flash_write_clears_flag_first(b, s, f) ==
    IF ~b.USE_DELAYED_FLASH_WRITE
    THEN [s |-> s, result |-> "CONFIG_OK", ops |-> 0]
    ELSE IF ~s.dirty
    THEN [s |-> s, result |-> "CONFIG_OK", ops |-> 0]
    ELSE IF ~s.valid
    THEN [s |-> s, result |-> "CONFIG_ERROR_INVALID", ops |-> 0]
    ELSE IF ~validate_config(s.ram)
    THEN [s |-> s, result |-> "CONFIG_ERROR_INVALID", ops |-> 0]
    ELSE IF f.kind = "unlock"
    THEN [s |-> [s EXCEPT !.dirty = FALSE], result |-> "CONFIG_ERROR_FLASH", ops |-> 1]
    ELSE LET r == FlashProgramLoop(s.m.flash, PrepareForFlash(s.ram), 0, f)
         IN  [s |-> [s EXCEPT !.m = [flash |-> r.flash, locked |-> TRUE], !.dirty = FALSE],
              result |-> IF r.status # HAL_OK THEN "CONFIG_ERROR_FLASH" ELSE "CONFIG_OK",
              ops |-> r.ops + 2]

\* A variant that writes the cached record without validating it.
delayed_flash_write_skips_validation(b, s, f) ==
    IF ~b.USE_DELAYED_FLASH_WRITE
    THEN [s |-> s, result |-> "CONFIG_OK", ops |-> 0]
    ELSE IF ~s.dirty
    THEN [s |-> s, result |-> "CONFIG_OK", ops |-> 0]
    ELSE IF ~s.valid
    THEN [s |-> s, result |-> "CONFIG_ERROR_INVALID", ops |-> 0]
    ELSE IF f.kind = "unlock"
    THEN [s |-> s, result |-> "CONFIG_ERROR_FLASH", ops |-> 1]
    ELSE LET r == FlashProgramLoop(s.m.flash, PrepareForFlash(s.ram), 0, f)
         IN  IF r.status # HAL_OK
             THEN [s |-> [s EXCEPT !.m = [flash |-> r.flash, locked |-> TRUE]],
                   result |-> "CONFIG_ERROR_FLASH", ops |-> r.ops + 2]
             ELSE [s |-> [s EXCEPT !.m = [flash |-> r.flash, locked |-> TRUE],
                                   !.dirty = FALSE],
                   result |-> "CONFIG_OK", ops |-> r.ops + 2]

config_manager_delayed_flash_write(b, s, f) ==
    IF ~b.USE_DELAYED_FLASH_WRITE
    THEN [s |-> s, result |-> "CONFIG_OK", ops |-> 0]
    ELSE IF ~s.dirty
    THEN [s |-> s, result |-> "CONFIG_OK", ops |-> 0]
    ELSE IF ~s.valid
    THEN [s |-> s, result |-> "CONFIG_ERROR_INVALID", ops |-> 0]
    ELSE IF ~validate_config(s.ram)
    THEN [s |-> s, result |-> "CONFIG_ERROR_INVALID", ops |-> 0]
    ELSE IF f.kind = "unlock"
    THEN [s |-> s, result |-> "CONFIG_ERROR_FLASH", ops |-> 1]
    ELSE LET unlocked == HAL_FLASH_Unlock(s.m)
             r == FlashProgramLoop(unlocked.flash, PrepareForFlash(s.ram), 0, f)
             locked == HAL_FLASH_Lock([unlocked EXCEPT !.flash = r.flash])
         IN  IF r.status # HAL_OK
             THEN [s |-> [s EXCEPT !.m = locked],
                   result |-> "CONFIG_ERROR_FLASH", ops |-> r.ops + 2]
             ELSE [s |-> [s EXCEPT !.m = locked, !.dirty = FALSE],
                   result |-> "CONFIG_OK", ops |-> r.ops + 2]

\* A variant that drops the RAM cache.
config_manager_erase_clears_cache(s) ==
    [s |-> [s EXCEPT !.ram = ZeroConfig, !.valid = FALSE], result |-> "CONFIG_OK", ops |-> 0]

config_manager_erase(s) == [s |-> s, result |-> "CONFIG_OK", ops |-> 0]

\* A variant that zeroes the record but leaves the flag as it was.
ClearRamCache_keeps_flag(s) == [s EXCEPT !.ram = ZeroConfig]

\* memset(&g_ram_config, 0, sizeof(device_config_t)); g_ram_config_valid = false
ClearRamCache(s) == [s EXCEPT !.ram = ZeroConfig, !.valid = FALSE]

\* A variant that gives up, with the error of the medium, when clearing the
\* medium failed.
factory_reset_fails_on_erase_error(b, s, f) ==
    IF b.USE_EEPROM_EMULATION
    THEN LET e == eeprom_erase_config(s.m, f)
         IN  IF e.result # "CONFIG_OK"
             THEN [s |-> [s EXCEPT !.m = e.m], result |-> e.result, ops |-> e.ops]
             ELSE [s |-> ClearRamCache([s EXCEPT !.m = e.m]), result |-> "CONFIG_OK",
                   ops |-> e.ops]
    ELSE [s |-> ClearRamCache(s), result |-> "CONFIG_OK", ops |-> 0]

\* HEAD side of the hunk at 601-628: the result of eeprom_erase_config is
\* printed and dropped.
config_manager_factory_reset(b, s, f) ==
    IF b.USE_EEPROM_EMULATION
    THEN LET e == eeprom_erase_config(s.m, f)
         IN  [s |-> ClearRamCache([s EXCEPT !.m = e.m]), result |-> "CONFIG_OK",
              ops |-> e.ops]
    ELSE [s |-> ClearRamCache(s), result |-> "CONFIG_OK", ops |-> 0]

(***************************************************************************)
(* The builds.                                                             *)
(***************************************************************************)
Build(fod, fed, delayed, eeprom) ==
    [FLASH_OPERATIONS_DISABLED |-> fod, FLASH_ERASE_DISABLED |-> fed,
     USE_DELAYED_FLASH_WRITE |-> delayed, USE_EEPROM_EMULATION |-> eeprom]

BuildEeprom     == Build(TRUE, TRUE, FALSE, TRUE)     \* as checked in (HEAD)
BuildRamOnly    == Build(TRUE, TRUE, FALSE, FALSE)
BuildDelayed    == Build(TRUE, TRUE, TRUE, TRUE)
BuildFlash      == Build(FALSE, TRUE, FALSE, TRUE)
BuildFlashErase == Build(FALSE, FALSE, FALSE, TRUE)
Builds == { BuildEeprom, BuildRamOnly, BuildDelayed, BuildFlash, BuildFlashErase }

\* Every text field has a NUL within its capacity.
Terminated(cfg) ==
    \A off \in { OffWifiSsid, OffWifiPassword, OffMqttHostname, OffMqttClientId,
                 OffMqttUsername, OffMqttPassword } :
        \E i \in 1..TextCap : cfg[off + i] = 0

\* Structural validity as the specification defines it (4.2).
StructurallyValid(cfg) == config_manager_validate(cfg) /\ Terminated(cfg)

(***************************************************************************)
(* Text.  A C string is the sequence of its character codes, without the   *)
(* terminator.                                                             *)
(***************************************************************************)

\* "MYWIFI"
WIFI_SSID_DEFAULT ==
    <<
    77, 89, 87, 73, 70, 73
    >>
\* "MYPASS"
WIFI_PASSWORD_DEFAULT ==
    <<
    77, 89, 80, 65, 83, 83
    >>
WPA2_PSK_AES == 3
WIFI_MODE_DEFAULT == WPA2_PSK_AES
\* "mqtt.dcasati.net"
MQTT_BROKER_HOSTNAME_DEFAULT ==
    <<
    109, 113, 116, 116, 46, 100, 99, 97, 115, 97, 116, 105, 46, 110, 101,
    116
    >>
MQTT_BROKER_PORT_DEFAULT == 1883
\* "mxchip-client-123456"
MQTT_CLIENT_ID_DEFAULT ==
    <<
    109, 120, 99, 104, 105, 112, 45, 99, 108, 105, 101, 110, 116, 45, 49,
    50, 51, 52, 53, 54
    >>
MQTT_USERNAME_DEFAULT == << >>
MQTT_PASSWORD_DEFAULT == << >>
DEFAULT_TELEMETRY_INTERVAL == 10

CONFIG_LINE_MAX_LEN == 256

\* The keys that parse_config_file compares with strcmp, each as its text.
ConfigKey ==
    [wifi_ssid |->
        << 119, 105, 102, 105, 95, 115, 115, 105, 100 >>,
     wifi_password |->
        << 119, 105, 102, 105, 95, 112, 97, 115, 115, 119, 111, 114, 100 >>,
     wifi_mode |->
        << 119, 105, 102, 105, 95, 109, 111, 100, 101 >>,
     mqtt_hostname |->
        << 109, 113, 116, 116, 95, 104, 111, 115, 116, 110, 97, 109, 101 >>,
     mqtt_port |->
        << 109, 113, 116, 116, 95, 112, 111, 114, 116 >>,
     mqtt_client_id |->
        << 109, 113, 116, 116, 95, 99, 108, 105, 101, 110, 116, 95, 105, 100 >>,
     mqtt_username |->
        << 109, 113, 116, 116, 95, 117, 115, 101, 114, 110, 97, 109, 101 >>,
     mqtt_password |->
        << 109, 113, 116, 116, 95, 112, 97, 115, 115, 119, 111, 114, 100 >>,
     telemetry_interval |->
        << 116, 101, 108, 101, 109, 101, 116, 114, 121, 95, 105, 110, 116, 101, 114, 118, 97, 108 >>]

\* The text of embedded_device_conf, character by character.
embedded_device_conf ==
    <<
    35, 32, 77, 88, 67, 104, 105, 112, 32, 65, 90, 51, 49, 54, 54, 32, 68,
    101, 118, 105, 99, 101, 32, 67, 111, 110, 102, 105, 103, 117, 114, 97,
    116, 105, 111, 110, 32, 70, 105, 108, 101, 10, 35, 32, 84, 104, 105,
    115, 32, 102, 105, 108, 101, 32, 99, 111, 110, 116, 97, 105, 110, 115,
    32, 100, 101, 102, 97, 117, 108, 116, 32, 99, 111, 110, 102, 105, 103,
    117, 114, 97, 116, 105, 111, 110, 32, 118, 97, 108, 117, 101, 115, 32,
    116, 104, 97, 116, 32, 119, 105, 108, 108, 32, 98, 101, 32, 108, 111,
    97, 100, 101, 100, 32, 97, 116, 32, 115, 116, 97, 114, 116, 117, 112,
    10, 35, 32, 76, 105, 110, 101, 115, 32, 115, 116, 97, 114, 116, 105,
    110, 103, 32, 119, 105, 116, 104, 32, 35, 32, 97, 114, 101, 32, 99, 111,
    109, 109, 101, 110, 116, 115, 32, 97, 110, 100, 32, 119, 105, 108, 108,
    32, 98, 101, 32, 105, 103, 110, 111, 114, 101, 100, 10, 35, 32, 70, 111,
    114, 109, 97, 116, 58, 32, 107, 101, 121, 61, 118, 97, 108, 117, 101,
    32, 40, 110, 111, 32, 115, 112, 97, 99, 101, 115, 32, 97, 114, 111, 117,
    110, 100, 32, 61, 41, 10, 10, 35, 32, 87, 105, 70, 105, 32, 67, 111,
    110, 102, 105, 103, 117, 114, 97, 116, 105, 111, 110, 10, 119, 105, 102,
    105, 95, 115, 115, 105, 100, 61, 77, 121, 87, 105, 70, 105, 78, 101,
    116, 119, 111, 114, 107, 10, 119, 105, 102, 105, 95, 112, 97, 115, 115,
    119, 111, 114, 100, 61, 77, 121, 87, 105, 70, 105, 80, 97, 115, 115,
    119, 111, 114, 100, 10, 119, 105, 102, 105, 95, 109, 111, 100, 101, 61,
    51, 10, 10, 35, 32, 77, 81, 84, 84, 32, 66, 114, 111, 107, 101, 114, 32,
    67, 111, 110, 102, 105, 103, 117, 114, 97, 116, 105, 111, 110, 10, 109,
    113, 116, 116, 95, 104, 111, 115, 116, 110, 97, 109, 101, 61, 109, 113,
    116, 116, 46, 100, 99, 97, 115, 97, 116, 105, 46, 110, 101, 116, 10,
    109, 113, 116, 116, 95, 112, 111, 114, 116, 61, 49, 56, 56, 51, 10, 109,
    113, 116, 116, 95, 99, 108, 105, 101, 110, 116, 95, 105, 100, 61, 109,
    120, 99, 104, 105, 112, 45, 100, 101, 118, 105, 99, 101, 45, 48, 48, 49,
    10, 109, 113, 116, 116, 95, 117, 115, 101, 114, 110, 97, 109, 101, 61,
    10, 109, 113, 116, 116, 95, 112, 97, 115, 115, 119, 111, 114, 100, 61,
    10, 10, 35, 32, 84, 101, 108, 101, 109, 101, 116, 114, 121, 32, 67, 111,
    110, 102, 105, 103, 117, 114, 97, 116, 105, 111, 110, 10, 116, 101, 108,
    101, 109, 101, 116, 114, 121, 95, 105, 110, 116, 101, 114, 118, 97, 108,
    61, 49, 48, 10
    >>

(***************************************************************************)
(* config_manager.c: the defaults provider.                                *)
(***************************************************************************)
wifi_mode(cfg) == Field(cfg, OffWifiMode, 4)
mqtt_port(cfg) == Field(cfg, OffMqttPort, 2)

\* The smallest element of a non-empty set of integers.
Min(S) == CHOOSE x \in S : \A y \in S : x <= y

\* trim_string: leading ' ' and '\t' are skipped; trailing ' ', '\t', '\r'
\* and '\n' are cut while end > start, so the first remaining character is
\* never cut.
RECURSIVE SkipBlanks(_, _)
SkipBlanks(str, i) ==
    IF i <= Len(str) /\ str[i] \in {32, 9} THEN SkipBlanks(str, i + 1) ELSE i

RECURSIVE CutTrailing(_, _)
CutTrailing(str, n) ==
    IF n > 1 /\ str[n] \in {32, 9, 13, 10} THEN CutTrailing(str, n - 1) ELSE n

trim_string(str) ==
    LET start == SkipBlanks(str, 1)
        rest  == SubSeq(str, start, Len(str))
    IN  SubSeq(rest, 1, CutTrailing(rest, Len(rest)))

\* strchr(line, c): the index of the first c, 0 for NULL.
strchr(line, c) ==
    LET hits == {i \in 1..Len(line) : line[i] = c}
    IN  IF hits = {} THEN 0 ELSE Min(hits)

\* atoi: white space, an optional sign, then decimal digits up to the first
\* other character; no digit gives 0.
RECURSIVE SkipSpace(_, _)
SkipSpace(str, i) ==
    IF i <= Len(str) /\ str[i] \in {32, 9, 10, 11, 12, 13}
    THEN SkipSpace(str, i + 1) ELSE i

RECURSIVE AtoiDigits(_, _, _)
AtoiDigits(str, i, acc) ==
    IF i <= Len(str) /\ str[i] \in 48..57
    THEN AtoiDigits(str, i + 1, acc * 10 + (str[i] - 48))
    ELSE acc

atoi(str) ==
    LET i == SkipSpace(str, 1)
    IN  IF i <= Len(str) /\ str[i] = 45 THEN 0 - AtoiDigits(str, i + 1, 0)
        ELSE IF i <= Len(str) /\ str[i] = 43 THEN AtoiDigits(str, i + 1, 0)
        ELSE AtoiDigits(str, i, 0)

\* (uint32_t)x and (uint16_t)x of an int, as the bytes stored.
CastU32(x) ==
    IF x >= 0 THEN LE32(x) ELSE [i \in 1..4 |-> 255 - LE32(0 - x - 1)[i]]

CastU16(x) ==
    IF x >= 0 THEN LE16(x % 65536)
    ELSE [i \in 1..2 |-> 255 - LE16((0 - x - 1) % 65536)[i]]

\* A variant that copies cap characters and sets no terminator.
SetText_without_terminator(config, off, cap, value) ==
    SetField(config, off, StrNCpy(value, cap))

\* strncpy(field, value, cap - 1); field[cap - 1] = '\0';
SetText(config, off, cap, value) ==
    SetField(config, off, StrNCpy(value, cap - 1) \o << 0 >>)

\* The position at which the copy of one line into line[] stops: at the end
\* of the content, at '\n', or when CONFIG_LINE_MAX_LEN - 1 characters have
\* been copied.
LineEnd(content, p) ==
    LET stops == {q \in p..Len(content) : content[q] = 10}
        e     == IF stops = {} THEN Len(content) + 1 ELSE Min(stops)
    IN  Min({e, p + CONFIG_LINE_MAX_LEN - 1})

\* The body of the loop of parse_config_file for one trimmed line.
ApplyLine(config, line) ==
    IF Len(line) = 0 \/ line[1] = 35 THEN config
    ELSE LET equals == strchr(line, 61)
         IN  IF equals = 0 THEN config
             ELSE LET key   == trim_string(SubSeq(line, 1, equals - 1))
                      value == trim_string(SubSeq(line, equals + 1, Len(line)))
                  IN  IF key = ConfigKey.wifi_ssid
                      THEN SetText(config, OffWifiSsid, CONFIG_SSID_MAX_LEN, value)
                      ELSE IF key = ConfigKey.wifi_password
                      THEN SetText(config, OffWifiPassword, CONFIG_PASSWORD_MAX_LEN, value)
                      ELSE IF key = ConfigKey.wifi_mode
                      THEN SetField(config, OffWifiMode, CastU32(atoi(value)))
                      ELSE IF key = ConfigKey.mqtt_hostname
                      THEN SetText(config, OffMqttHostname, CONFIG_HOSTNAME_MAX_LEN, value)
                      ELSE IF key = ConfigKey.mqtt_port
                      THEN SetField(config, OffMqttPort, CastU16(atoi(value)))
                      ELSE IF key = ConfigKey.mqtt_client_id
                      THEN SetText(config, OffMqttClientId, CONFIG_CLIENT_ID_MAX_LEN, value)
                      ELSE IF key = ConfigKey.mqtt_username
                      THEN SetText(config, OffMqttUsername, CONFIG_USERNAME_MAX_LEN, value)
                      ELSE IF key = ConfigKey.mqtt_password
                      THEN SetText(config, OffMqttPassword, CONFIG_PASSWORD_MAX_LEN, value)
                      ELSE IF key = ConfigKey.telemetry_interval
                      THEN SetField(config, OffTelemetry, CastU32(atoi(value)))
                      ELSE config

RECURSIVE ParseLines(_, _, _)
ParseLines(config, content, p) ==
    IF p > Len(content) THEN config
    ELSE LET e    == LineEnd(content, p)
             next == IF e <= Len(content) /\ content[e] = 10 THEN e + 1 ELSE e
             done == ApplyLine(config, trim_string(SubSeq(content, p, e - 1)))
         IN  IF done[1] >= 0 THEN ParseLines(done, content, next) ELSE done

parse_config_file(config, content) == ParseLines(config, content, 1)

\* The record after the compiled-in assignments of config_manager_get_defaults.
FallbackDefaults ==
    LET c0 == SetField(SetField(ZeroConfig, OffMagic, CONFIG_MAGIC),
                       OffVersion, LE32(CONFIG_VERSION))
        c1 == SetField(c0, OffWifiSsid,
                       StrNCpy(WIFI_SSID_DEFAULT, CONFIG_SSID_MAX_LEN - 1))
        c2 == SetField(c1, OffWifiPassword,
                       StrNCpy(WIFI_PASSWORD_DEFAULT, CONFIG_PASSWORD_MAX_LEN - 1))
        c3 == SetField(c2, OffWifiMode, LE32(WIFI_MODE_DEFAULT))
        c4 == SetField(c3, OffMqttHostname,
                       StrNCpy(MQTT_BROKER_HOSTNAME_DEFAULT, CONFIG_HOSTNAME_MAX_LEN - 1))
        c5 == SetField(c4, OffMqttPort, LE16(MQTT_BROKER_PORT_DEFAULT))
        c6 == SetField(c5, OffMqttClientId,
                       StrNCpy(MQTT_CLIENT_ID_DEFAULT, CONFIG_CLIENT_ID_MAX_LEN - 1))
        c7 == SetField(c6, OffMqttUsername,
                       StrNCpy(MQTT_USERNAME_DEFAULT, CONFIG_USERNAME_MAX_LEN - 1))
        c8 == SetField(c7, OffMqttPassword,
                       StrNCpy(MQTT_PASSWORD_DEFAULT, CONFIG_PASSWORD_MAX_LEN - 1))
    IN  SetField(c8, OffTelemetry, LE32(DEFAULT_TELEMETRY_INTERVAL))

\* config_manager_get_defaults for a build whose embedded blob is content:
\* the fallback assignments, then load_config_file_defaults.
GetDefaultsFrom(content) == parse_config_file(FallbackDefaults, content)

\* A variant that depends on the cache: it hands out g_ram_config when the
\* cache is valid.
config_manager_get_defaults_from_cache(s) ==
    IF s.valid THEN s.ram ELSE GetDefaultsFrom(embedded_device_conf)

\* config_manager_get_defaults(config) for a non-null config: the record
\* written to *config.  s is the manager's state, which the function does
\* not read.
config_manager_get_defaults(s) == GetDefaultsFrom(embedded_device_conf)

\* The record every call of config_manager_get_defaults writes in this build.
DeviceDefaults == GetDefaultsFrom(embedded_device_conf)

(***************************************************************************)
(* config_manager.c: the setup dialogue.  What the operator types at one   *)
(* prompt is a text of printable characters; Enter ends it.                *)
(***************************************************************************)
\* read_string_from_serial(buffer, max_len, prompt): the characters stored
\* before Enter, at most max_len - 1 of them.
read_string_from_serial(typed, max_len) ==
    SubSeq(typed, 1, IF Len(typed) < max_len - 1 THEN Len(typed) ELSE max_len - 1)

\* read_int_from_serial(prompt, default_value): the default on an empty
\* line, else atoi of the line (char buffer[16]).
read_int_from_serial(typed, default_value) ==
    LET buffer == read_string_from_serial(typed, 16)
    IN  IF Len(buffer) = 0 THEN default_value ELSE atoi(buffer)

\* if (strlen(temp_buffer) > 0) { strncpy(field, temp_buffer, cap - 1);
\*                                field[cap - 1] = '\0'; }
PromptText(config, off, cap, typed) ==
    LET temp_buffer == read_string_from_serial(typed, cap)
    IN  IF Len(temp_buffer) > 0 THEN SetText(config, off, cap, temp_buffer) ELSE config

\* What the operator types at the prompts for wifi_ssid, mqtt_hostname,
\* mqtt_client_id and the telemetry interval; at the other prompts, Enter.
NoTyping == [ssid |-> << >>, host |-> << >>, client |-> << >>, interval |-> << >>]

\* The record the dialogue builds: the defaults, overwritten by each answer
\* that is not empty.
\* The element of a set of one element: { e(x) : x \in { v } } computes v
\* once, where a LET would compute it at every use.
Only(S) == CHOOSE x \in S : TRUE

PromptedInterval(config, typed) ==
    SetField(config, OffTelemetry,
             CastU32(read_int_from_serial(typed.interval,
                                          U32(telemetry_interval(config)))))

PromptedConfig(defaults, typed) ==
    Only({ PromptedInterval(c3, typed) :
             c3 \in { PromptText(
                         PromptText(
                           PromptText(defaults, OffWifiSsid, CONFIG_SSID_MAX_LEN,
                                      typed.ssid),
                           OffMqttHostname, CONFIG_HOSTNAME_MAX_LEN, typed.host),
                         OffMqttClientId, CONFIG_CLIENT_ID_MAX_LEN, typed.client) } })

\* The end of config_manager_prompt_and_store: r is what
\* config_manager_save(config) returned.
PromptStored(r, config) ==
    [s |-> r.s, result |-> r.result, out |-> config, ops |-> r.ops]

\* The dialogue has filled config: config_manager_save(config).
PromptSave(b, s, config, f) ==
    Only({ PromptStored(r, config) : r \in { config_manager_save(b, s, FALSE, config, f) } })

\* config_manager_prompt_and_store(config) for a non-null config: out is
\* *config when it returns.
config_manager_prompt_and_store(b, s, typed, f) ==
    Only({ PromptSave(b, s, config, f) :
             config \in { PromptedConfig(config_manager_get_defaults(s), typed) } })

\* A variant in which the button is found held.
config_manager_check_reset_button_held == TRUE

\* config_manager_check_reset_button(): "always return false"
config_manager_check_reset_button == FALSE

(***************************************************************************)
(* State.                                                                  *)
(***************************************************************************)
VARIABLES
    build,                      \* the preprocessor switches of this firmware
    g_ram_config,               \* static device_config_t g_ram_config
    g_ram_config_valid,         \* static bool g_ram_config_valid
    g_config_needs_flash_save,  \* static bool g_config_needs_flash_save
    flash,                      \* the bytes of the flash region
    flash_locked,               \* the flash controller's write lock
    faults,                     \* hardware faults so far
    call,                       \* the last call of the API, as its caller saw it
    last_save,                  \* the record of a save that returned CONFIG_OK, while
                                \* nothing but bit flips and reboots happened since
    conf_lines,                 \* the lines a blob under test is made of
    g_device_config,            \* main.c: device_config_t g_device_config
    pc,                         \* where the start-up thread is
    tick,                       \* the counter HAL_GetTick returns
    start_time,                 \* start_time of config_manager_wait_for_user_input
    delay_start,                \* the tick at which the running delay began
    lag,                        \* ticks gone by since the thread became ready
    console,                    \* whether the console will deliver a character
    verdict,                    \* what the two validators said of g_device_config
    mqtt,                       \* mqtt.c: the client's statics and the locals of
                                \* azure_iot_mqtt_entry
    serial                      \* the setup dialogue: index and the buffer of
                                \* read_string_from_serial, and what it has done

\* The configuration manager and its medium.
manager_vars == << build, g_ram_config, g_ram_config_valid, g_config_needs_flash_save,
                   flash, flash_locked, faults, call, last_save >>

\* The start-up thread and what it runs on.
startup_vars == << conf_lines, g_device_config, pc, tick, start_time, delay_start,
                   lag, console, verdict, mqtt, serial >>

vars == << build, g_ram_config, g_ram_config_valid, g_config_needs_flash_save,
           flash, flash_locked, faults, call, last_save,
           conf_lines, g_device_config, pc, tick, start_time, delay_start, lag, console,
           verdict, mqtt, serial >>

State == [ram |-> g_ram_config, valid |-> g_ram_config_valid,
          dirty |-> g_config_needs_flash_save,
          m |-> [flash |-> flash, locked |-> flash_locked]]

\* The state s becomes the program's state.
Becomes(s) ==
    /\ g_ram_config' = s.ram
    /\ g_ram_config_valid' = s.valid
    /\ g_config_needs_flash_save' = s.dirty
    /\ flash' = s.m.flash
    /\ flash_locked' = s.m.locked

\* What a caller sees of a call: the operation, its argument (for save), the
\* fault the hardware produced during it, the result code, the caller's
\* buffer afterwards (for load), the reads of the medium, the checks of the
\* record read (for load, in the order they were made) and the HAL
\* operations it made, whether the cache was valid when it started, and
\* whether the call before it was a load into a buffer, a factory reset, or
\* the reboot that followed a successful save.
Call(op, is_null, arg, f, result, out, reads, ops) ==
    [op |-> op, is_null |-> is_null, arg |-> arg, fault |-> f.kind, result |-> result,
     out |-> out, reads |-> reads, checks |-> << >>, ops |-> ops,
     valid_before |-> g_ram_config_valid,
     after |-> IF call.op = "factory_reset" \/ (call.op = "load" /\ ~call.is_null)
               THEN call.op
               ELSE IF call.op = "reboot" /\ last_save.saved THEN "reboot_after_save"
               ELSE "other"]

NoCall == [op |-> "boot", is_null |-> FALSE, arg |-> ZeroConfig, fault |-> "none",
           result |-> "CONFIG_OK", out |-> ZeroConfig, reads |-> 0, checks |-> << >>,
           ops |-> 0, valid_before |-> FALSE, after |-> "other"]

NoVerdict == [structural |-> FALSE, operational |-> FALSE]

\* mqtt.c before azure_iot_mqtt_entry runs: telemetry_state is 0, nothing is
\* created or connected, no publication has been made.
\* Of the entry's locals: status and server_ip (not yet assigned), retry and
\* the timeouts of the DNS queries made, connection_attempts and the
\* timeouts of the connects made, and whether the command topic is
\* subscribed.
NoMqtt == [client_id |-> << >>, hostname |-> << >>, server_port |-> 0,
           connected |-> FALSE, telemetry_state |-> 0, waited |-> 0,
           published |-> FALSE, period |-> 0,
           status |-> "unassigned", server_ip |-> << >>, retry |-> 0,
           dns_queries |-> << >>, connection_attempts |-> 0, connects |-> << >>,
           subscribed |-> FALSE]

\* No read_string_from_serial is running: index, the characters stored in
\* buffer[0..index-1], whether the loop was left by Enter, the keys read by
\* this call, whether a byte was written at or beyond buffer[max_len], the
\* record the caller passed to config_manager_prompt_and_store, and whether
\* an answer of the dialogue so far was not the empty line.
NoSerial == [index |-> 0, buffer |-> << >>, entered |-> FALSE, keys |-> 0,
             outside |-> FALSE, passed |-> << >>, typed |-> FALSE]

NoSave == [saved |-> FALSE, flipped |-> FALSE, config |-> ZeroConfig]

Record(c) ==
    /\ UNCHANGED startup_vars
    /\ call' = c
    /\ last_save' = IF c.op = "reboot" THEN last_save
                    ELSE IF c.op = "bit_flip" /\ last_save.saved
                         THEN [last_save EXCEPT !.flipped = TRUE]
                    ELSE IF c.op = "save" /\ c.result = "CONFIG_OK" /\ ~c.is_null
                         THEN [saved |-> TRUE, flipped |-> FALSE, config |-> c.arg]
                         ELSE NoSave

\* The HAL operations a call can reach, by the branch the build compiles.
SaveFaultKinds(b) ==
    IF b.USE_DELAYED_FLASH_WRITE THEN {}
    ELSE IF b.FLASH_OPERATIONS_DISABLED
         THEN IF b.USE_EEPROM_EMULATION THEN { "unlock", "program" } ELSE {}
    ELSE IF b.FLASH_ERASE_DISABLED THEN { "unlock", "program" }
    ELSE { "unlock", "erase", "program" }
FlushFaultKinds(b) ==
    IF /\ b.USE_DELAYED_FLASH_WRITE /\ g_config_needs_flash_save /\ g_ram_config_valid
       /\ validate_config(g_ram_config)
    THEN { "unlock", "program" } ELSE {}
ResetFaultKinds(b) == IF b.USE_EEPROM_EMULATION THEN { "unlock", "program" } ELSE {}

\* The faults that may still happen in this run, among the given kinds.
FaultChoices(kinds) ==
    IF faults < MaxFaults THEN { NoFault } \cup { f \in HalFaults : f.kind \in kinds }
    ELSE { NoFault }
\* The records offered to save: the one that only validate_config rejects is
\* offered where a later flush can meet it.
SaveChoices(b) ==
    IF b.USE_DELAYED_FLASH_WRITE THEN SaveInputs ELSE SaveInputs \ { RecInterval0 }

Count(f) == faults' = IF f.kind = "none" THEN faults ELSE faults + 1

Init ==
    /\ build \in Builds
    /\ g_ram_config = ZeroConfig
    /\ g_ram_config_valid = FALSE
    /\ g_config_needs_flash_save = FALSE
    /\ flash = ErasedRegion
    /\ flash_locked = TRUE
    /\ faults = 0
    /\ call = NoCall
    /\ last_save = NoSave
    /\ conf_lines = << >>
    /\ g_device_config = ZeroConfig
    /\ pc = "running"
    /\ tick = 0
    /\ start_time = 0
    /\ delay_start = 0
    /\ lag = 0
    /\ console = "silent"
    /\ verdict = NoVerdict
    /\ mqtt = NoMqtt
    /\ serial = NoSerial

(***************************************************************************)
(* One action per function of the API.  The caller of load passes a        *)
(* buffer that holds zeros (g_device_config before its first use).         *)
(***************************************************************************)
Load ==
    \E is_null \in BOOLEAN :
        \E r \in { config_manager_load(build, State, is_null, ZeroConfig) } :
            /\ Becomes(r.s)
            /\ Record([Call("load", is_null, ZeroConfig, NoFault, r.result, r.out,
                            r.reads, 0) EXCEPT !.checks = r.checks])
            /\ UNCHANGED << build, faults >>

Save ==
    \E is_null \in BOOLEAN, config \in SaveChoices(build), f \in FaultChoices(SaveFaultKinds(build)) :
        \* a null pointer is one input, whatever the record and the fault
        /\ is_null => config = RecA /\ f = NoFault
        /\ \E r \in { config_manager_save(build, State, is_null, config, f) } :
            /\ Becomes(r.s)
            /\ Record(Call("save", is_null, config, f, r.result, ZeroConfig, 0, r.ops))
            /\ Count(f)
            /\ UNCHANGED build

DelayedFlashWrite ==
    \E f \in FaultChoices(FlushFaultKinds(build)) :
        \E r \in { config_manager_delayed_flash_write(build, State, f) } :
            /\ Becomes(r.s)
            /\ Record(Call("delayed_flash_write", FALSE, ZeroConfig, f, r.result,
                           ZeroConfig, 0, r.ops))
            /\ Count(f)
            /\ UNCHANGED build

Erase ==
    \E r \in { config_manager_erase(State) } :
        /\ Becomes(r.s)
        /\ Record(Call("erase", FALSE, ZeroConfig, NoFault, r.result, ZeroConfig, 0, r.ops))
        /\ UNCHANGED << build, faults >>

FactoryReset ==
    \E f \in FaultChoices(ResetFaultKinds(build)) :
        \E r \in { config_manager_factory_reset(build, State, f) } :
            /\ Becomes(r.s)
            /\ Record(Call("factory_reset", FALSE, ZeroConfig, f, r.result,
                           ZeroConfig, 0, r.ops))
            /\ Count(f)
            /\ UNCHANGED build

\* config_manager_get_defaults(config): a null pointer returns at once,
\* otherwise *config receives the defaults.
GetDefaults ==
    \E is_null \in BOOLEAN :
        \E r \in { IF is_null THEN ZeroConfig ELSE config_manager_get_defaults(State) } :
            /\ Record(Call("get_defaults", is_null, ZeroConfig, NoFault, "CONFIG_OK",
                           r, 0, 0))
            /\ UNCHANGED << build, g_ram_config, g_ram_config_valid,
                            g_config_needs_flash_save, flash, flash_locked, faults >>

\* A reset or power cycle: the statics are initialised again, the flash
\* region keeps its content and the controller comes up locked.
Reboot ==
    /\ g_ram_config' = ZeroConfig
    /\ g_ram_config_valid' = FALSE
    /\ g_config_needs_flash_save' = FALSE
    /\ flash_locked' = TRUE
    /\ Record(Call("reboot", FALSE, ZeroConfig, NoFault, "CONFIG_OK", ZeroConfig, 0, 0))
    /\ UNCHANGED << build, flash, faults >>

\* The medium corrupts a byte of a stored record: bit 0 of the first byte of
\* wifi_ssid flips.
BitFlip ==
    \E off \in { OffWifiSsid } :
        /\ magic(flash) = CONFIG_MAGIC
        /\ faults < MaxFaults
        /\ faults' = faults + 1
        /\ flash' = [flash EXCEPT ![off + 1] = BitXor(@, 1, 8)]
        /\ Record(Call("bit_flip", FALSE, ZeroConfig, NoFault, "CONFIG_OK", ZeroConfig, 0, 0))
        /\ UNCHANGED << build, g_ram_config, g_ram_config_valid,
                        g_config_needs_flash_save, flash_locked >>

Next ==
    \/ Load
    \/ Save
    \/ DelayedFlashWrite
    \/ Erase
    \/ FactoryReset
    \/ GetDefaults
    \/ Reboot
    \/ BitFlip

Spec == Init /\ [][Next]_vars

(***************************************************************************)
(* Blobs for the defaults provider.  A blob is written line by line; each   *)
(* line is listed with the setting it is meant for ("none" for a comment,  *)
(* a blank line, an unknown key or a line without '='), whether it is a    *)
(* well-formed key=value line for that setting, and, if so, the bytes its  *)
(* value stands for in the record's field.                                 *)
(***************************************************************************)
MaxLines == 2

ConfLine ==
    <<
      \* "mqtt_port=8883"
      [text |-> << 109, 113, 116, 116, 95, 112, 111, 114, 116, 61, 56, 56, 56, 51 >>,
       key |-> "mqtt_port", ok |-> TRUE, field |-> LE16(8883)],
      \* "wifi_mode=2"
      [text |-> << 119, 105, 102, 105, 95, 109, 111, 100, 101, 61, 50 >>,
       key |-> "wifi_mode", ok |-> TRUE, field |-> LE32(2)],
      \* "wifi_ssid=n"
      [text |-> << 119, 105, 102, 105, 95, 115, 115, 105, 100, 61, 110 >>,
       key |-> "wifi_ssid", ok |-> TRUE, field |-> StrNCpy(<< 110 >>, CONFIG_SSID_MAX_LEN)],
      \* " telemetry_interval = 60 \r"
      [text |-> << 32, 116, 101, 108, 101, 109, 101, 116, 114, 121, 95, 105, 110, 116, 101, 114, 118, 97, 108, 32, 61, 32, 54, 48, 32, 13 >>,
       key |-> "telemetry_interval", ok |-> TRUE, field |-> LE32(60)],
      \* "# mqtt_port=1"
      [text |-> << 35, 32, 109, 113, 116, 116, 95, 112, 111, 114, 116, 61, 49 >>,
       key |-> "none", ok |-> FALSE, field |-> << >>],
      \* ""
      [text |-> << >>,
       key |-> "none", ok |-> FALSE, field |-> << >>],
      \* "colour=red"
      [text |-> << 99, 111, 108, 111, 117, 114, 61, 114, 101, 100 >>,
       key |-> "none", ok |-> FALSE, field |-> << >>],
      \* "wifi_mode 1"
      [text |-> << 119, 105, 102, 105, 95, 109, 111, 100, 101, 32, 49 >>,
       key |-> "none", ok |-> FALSE, field |-> << >>],
      \* "mqtt_port=abc"
      [text |-> << 109, 113, 116, 116, 95, 112, 111, 114, 116, 61, 97, 98, 99 >>,
       key |-> "mqtt_port", ok |-> FALSE, field |-> << >>],
      \* "telemetry_interval="
      [text |-> << 116, 101, 108, 101, 109, 101, 116, 114, 121, 95, 105, 110, 116, 101, 114, 118, 97, 108, 61 >>,
       key |-> "telemetry_interval", ok |-> FALSE, field |-> << >>],
      \* a comment of CONFIG_LINE_MAX_LEN - 1 characters and more: "###...#wifi_mode=1"
      [text |-> Fill(CONFIG_LINE_MAX_LEN - 1, 35) \o << 119, 105, 102, 105, 95, 109, 111, 100, 101, 61, 49 >>,
       key |-> "none", ok |-> FALSE, field |-> << >>],
      \* "wifi_ssid=\rn": the value begins with a carriage return
      [text |-> << 119, 105, 102, 105, 95, 115, 115, 105, 100, 61, 13, 110 >>,
       key |-> "wifi_ssid", ok |-> FALSE, field |-> << >>],
      \* " \twifi_ssid \t= \tn\t \r"
      [text |-> << 32, 9, 119, 105, 102, 105, 95, 115, 115, 105, 100, 32, 9, 61, 32, 9, 110, 9, 32, 13 >>,
       key |-> "wifi_ssid", ok |-> TRUE, field |-> StrNCpy(<< 110 >>, CONFIG_SSID_MAX_LEN)],
      \* "wifi_ssid=n x": a value with a space inside
      [text |-> << 119, 105, 102, 105, 95, 115, 115, 105, 100, 61, 110, 32, 120 >>,
       key |-> "wifi_ssid", ok |-> TRUE,
       field |-> StrNCpy(<< 110, 32, 120 >>, CONFIG_SSID_MAX_LEN - 1) \o << 0 >>]
    >>

\* The blob: every line but the last ends with '\n'.
RECURSIVE BlobText(_)
BlobText(ls) ==
    IF Len(ls) = 0 THEN << >>
    ELSE IF Len(ls) = 1 THEN ConfLine[ls[1]].text
    ELSE ConfLine[ls[1]].text \o << 10 >> \o BlobText(Tail(ls))

Blobs == UNION { [1..n -> 1..Len(ConfLine)] : n \in 0..MaxLines }

\* The settings under test: where each lives in the record.
Settings ==
    [mqtt_port          |-> [off |-> OffMqttPort, size |-> 2],
     wifi_mode          |-> [off |-> OffWifiMode, size |-> 4],
     wifi_ssid          |-> [off |-> OffWifiSsid, size |-> CONFIG_SSID_MAX_LEN],
     telemetry_interval |-> [off |-> OffTelemetry, size |-> 4]]

Max(S) == CHOOSE x \in S : \A y \in S : x >= y

\* The well-formed lines for setting k in the blob made of ls.
WellFormedFor(ls, k) == { i \in 1..Len(ls) : ConfLine[ls[i]].key = k /\ ConfLine[ls[i]].ok }

\* What the record's field for k should hold for the blob made of ls: the
\* value of the blob's (last) well-formed line for k, else the fallback.
Layered(ls, k) ==
    IF WellFormedFor(ls, k) = {}
    THEN Field(FallbackDefaults, Settings[k].off, Settings[k].size)
    ELSE ConfLine[ls[Max(WellFormedFor(ls, k))]].field

(***************************************************************************)
(* The defaults provider on its own: the blob is an input, chosen when the *)
(* firmware is built.                                                      *)
(***************************************************************************)
InitDefaults ==
    /\ build = BuildEeprom
    /\ g_ram_config = ZeroConfig
    /\ g_ram_config_valid = FALSE
    /\ g_config_needs_flash_save = FALSE
    /\ flash = ErasedRegion
    /\ flash_locked = TRUE
    /\ faults = 0
    /\ call = NoCall
    /\ last_save = NoSave
    /\ conf_lines \in Blobs
    /\ g_device_config = ZeroConfig
    /\ pc = "defaults"
    /\ tick = 0
    /\ start_time = 0
    /\ delay_start = 0
    /\ lag = 0
    /\ console = "silent"
    /\ verdict = NoVerdict
    /\ mqtt = NoMqtt
    /\ serial = NoSerial

\* config_manager_get_defaults(&g_device_config) in a firmware whose blob is
\* made of conf_lines.
ApplyDefaults ==
    /\ pc = "defaults"
    /\ g_device_config' = GetDefaultsFrom(BlobText(conf_lines))
    /\ pc' = "defaults_done"
    /\ UNCHANGED manager_vars
    /\ UNCHANGED << serial, mqtt, conf_lines, tick, start_time, delay_start, lag, console, verdict >>

NextDefaults == ApplyDefaults

SpecDefaults == InitDefaults /\ [][NextDefaults]_vars

(***************************************************************************)
(* The two validators on their own: the record is an input.                *)
(***************************************************************************)
\* Text of a field: empty, one character, or filled to capacity without a
\* terminator.
ValidateTexts == { << >>, << 97 >>, Fill(TextCap, 120) }

\* Intervals around the limits of validate_config, and one above 16 bits.
ValidateIntervals == { 0, 1, 3600, 3601, 65546 }

ValidateInputs ==
    { MkConfig(mg, ver, ssid, host, client, interval) :
        mg \in { CONFIG_MAGIC, LE32(0) },
        ver \in { LE32(CONFIG_VERSION), LE32(CONFIG_VERSION + 1) },
        ssid \in ValidateTexts, host \in ValidateTexts, client \in ValidateTexts,
        interval \in ValidateIntervals }

InitValidate ==
    /\ build = BuildDelayed
    /\ g_ram_config = ZeroConfig
    /\ g_ram_config_valid = FALSE
    /\ g_config_needs_flash_save = FALSE
    /\ flash = ErasedRegion
    /\ flash_locked = TRUE
    /\ faults = 0
    /\ call = NoCall
    /\ last_save = NoSave
    /\ conf_lines = << >>
    /\ g_device_config \in ValidateInputs
    /\ pc = "validate"
    /\ tick = 0
    /\ start_time = 0
    /\ delay_start = 0
    /\ lag = 0
    /\ console = "silent"
    /\ verdict = NoVerdict
    /\ mqtt = NoMqtt
    /\ serial = NoSerial

\* config_manager_validate(&g_device_config) and validate_config(&g_device_config)
Validate ==
    /\ pc = "validate"
    /\ verdict' = [structural  |-> config_manager_validate(g_device_config),
                   operational |-> validate_config(g_device_config)]
    /\ pc' = "validated"
    /\ UNCHANGED manager_vars
    /\ UNCHANGED << serial, mqtt, conf_lines, g_device_config, tick, start_time, delay_start, lag,
                    console >>

NextValidate == Validate

SpecValidate == InitValidate /\ [][NextValidate]_vars

(***************************************************************************)
(* main.c: the start-up of the MQTT thread.  init_device_configuration     *)
(* loads the record, waits for a key with a timeout and falls back to the  *)
(* defaults; then the thread sleeps and brings the network up.  One tick   *)
(* of the model is the period of HAL_Delay(100) in the waiting loop.       *)
(***************************************************************************)
\* The 10000 ms of config_manager_wait_for_user_input, in ticks.
TimeoutTicks == 3
\* The 3 seconds of tx_thread_sleep, in ticks.
SleepTicks == 2
\* The most ticks that go by between the thread becoming ready and its step.
MaxLag == 1
\* The width of the tick counter, scaled: the counter wraps, and no interval
\* the thread measures is as long as a whole turn of it.
TickMod == TimeoutTicks + SleepTicks + 2 * MaxLag + 1

\* A variant that subtracts as signed integers, without the wrap-around.
Elapsed_signed(now, since) == now - since

\* uint32_t elapsed = current_time - start_time
Elapsed(now, since) == (now - since + TickMod) % TickMod

\* A usable record whose wifi_ssid is "%": at this capacity, the text with a
\* conversion specification.
RecPercent == SetField(RecA, OffWifiSsid, StrNCpy(<< 37 >>, CONFIG_SSID_MAX_LEN))

\* The manager's state after a reset, over the medium fl.
AfterReset(fl) ==
    [ram |-> ZeroConfig, valid |-> FALSE, dirty |-> FALSE,
     m |-> [flash |-> fl, locked |-> TRUE]]

\* The medium after save(config) and a flush in build b, from the erased
\* medium and without a fault.
StoredBy(b, config) ==
    LET s1 == config_manager_save(b, AfterReset(ErasedRegion), FALSE, config, NoFault).s
    IN  config_manager_delayed_flash_write(b, s1, NoFault).s.m.flash

\* The medium with a stored record one bit of which has flipped.
Corrupted(fl) == [fl EXCEPT ![OffWifiSsid + 1] = BitXor(@, 1, 8)]

\* The medium after earlier sessions in build b, one for each element of
\* typings: in each the device started with the medium the session before
\* had left, the operator went through the setup dialogue and typed what
\* the element says, and the record was stored and flushed.
RECURSIVE AfterSessions(_, _, _)
AfterSessions(b, fl, typings) ==
    IF Len(typings) = 0 THEN fl
    ELSE AfterSessions(
             b,
             Only({ config_manager_delayed_flash_write(b, r.s, NoFault).s.m.flash :
                      r \in { config_manager_prompt_and_store(b, AfterReset(fl),
                                                               Head(typings), NoFault) } }),
             Tail(typings))

\* Two sessions in which the operator changed the wifi_ssid: to "H" in the
\* first, to "0" in the second.
SetupTwice(b) ==
    AfterSessions(b, ErasedRegion, << [NoTyping EXCEPT !.ssid = << 72 >>],
                                      [NoTyping EXCEPT !.ssid = << 48 >>] >>)

\* What the medium may hold when the device starts.
StartupMedia(b) ==
    { ErasedRegion, SetupTwice(b) }
        \cup UNION { { m, Corrupted(m) } : m \in { StoredBy(b, c) : c \in { RecA, RecPercent } } }

\* printf(text) with the text as the format: the call is undefined when the
\* format holds a '%' that does not begin "%%" (it takes an argument that
\* was not passed, or is no conversion specification at all).
RECURSIVE HasConversion(_, _)
HasConversion(str, i) ==
    IF i > Len(str) THEN FALSE
    ELSE IF str[i] # 37 THEN HasConversion(str, i + 1)
    ELSE IF i + 1 <= Len(str) /\ str[i + 1] = 37 THEN HasConversion(str, i + 2)
    ELSE TRUE

\* printf(cfg.field) for the field at off: the string runs to the first NUL,
\* through the following fields if the field has none; none in the whole
\* record is a read beyond the object.
PrintfUndefined(cfg, off) ==
    LET nuls == { i \in off + 1 .. Len(cfg) : cfg[i] = 0 }
    IN  IF nuls = {} THEN TRUE
        ELSE HasConversion(SubSeq(cfg, off + 1, Min(nuls) - 1), 1)

\* The thread can run: it is not inside a delay that has time to go, and it
\* has not ended in the network code, the setup dialogue or a fault.
Ready ==
    \/ pc \in { "boot", "poll", "timeout", "print" }
    \/ pc = "getchar" /\ console = "key"
    \/ pc = "delay" /\ Elapsed(tick, delay_start) >= 1
    \/ pc = "sleep" /\ Elapsed(tick, delay_start) >= SleepTicks

\* The firmware as checked in, and the build that programs the flash with
\* a CRC.
StartupBuilds == { BuildEeprom, BuildFlash, BuildDelayed }

InitStartup ==
    /\ build \in StartupBuilds
    /\ g_ram_config = ZeroConfig
    /\ g_ram_config_valid = FALSE
    /\ g_config_needs_flash_save = FALSE
    /\ flash \in StartupMedia(build)
    /\ flash_locked = TRUE
    /\ faults = 0
    /\ call = NoCall
    /\ last_save = NoSave
    /\ conf_lines = << >>
    /\ g_device_config = ZeroConfig
    /\ pc = "boot"
    /\ tick \in { 0, TickMod - 2 }
    /\ start_time = 0
    /\ delay_start = 0
    /\ lag = 0
    /\ console \in { "silent", "operator" }
    /\ verdict = NoVerdict
    /\ mqtt = NoMqtt
    /\ serial = NoSerial

\* init_device_configuration up to the waiting loop: the reset button is
\* never held, config_manager_load(&g_device_config), and the first lines
\* of config_manager_wait_for_user_input (start_time = HAL_GetTick()).
StartupLoad ==
    /\ pc = "boot"
    /\ IF config_manager_check_reset_button
       THEN \* config_manager_factory_reset(); return;
            /\ \E r \in { config_manager_factory_reset(build, State, NoFault) } :
                /\ Becomes(r.s)
                /\ call' = Call("factory_reset", FALSE, ZeroConfig, NoFault, r.result,
                                ZeroConfig, 0, r.ops)
            /\ pc' = "sleep"
            /\ delay_start' = tick
            /\ UNCHANGED << g_device_config, start_time >>
       ELSE /\ \E r \in { config_manager_load(build, State, FALSE, g_device_config) } :
                /\ Becomes(r.s)
                /\ g_device_config' = r.out
                /\ call' = [Call("load", FALSE, ZeroConfig, NoFault, r.result, r.out,
                                 r.reads, 0) EXCEPT !.checks = r.checks]
            /\ start_time' = tick
            /\ pc' = "poll"
            /\ UNCHANGED delay_start
    /\ lag' = 0
    /\ UNCHANGED << build, faults, last_save, conf_lines, tick, console, verdict, mqtt, serial >>

\* One turn of the loop of config_manager_wait_for_user_input, up to
\* HAL_Delay: the timeout, else the key, else the delay begins.  The locals
\* are zero outside their function.  config_manager_char_available receives
\* the character with HAL_UART_Receive(&UartHandle, &temp_char, 1, 0): the
\* UART no longer holds it when the loop goes on to __io_getchar.
WaitPoll ==
    /\ pc = "poll"
    /\ IF Elapsed(tick, start_time) >= TimeoutTicks
       THEN pc' = "timeout" /\ start_time' = 0 /\ UNCHANGED << delay_start, console >>
       ELSE IF console = "key"
            THEN /\ pc' = "getchar" /\ console' = "operator"
                 /\ UNCHANGED << start_time, delay_start >>
            ELSE pc' = "delay" /\ delay_start' = tick /\ UNCHANGED << start_time, console >>
    /\ lag' = 0
    /\ UNCHANGED manager_vars
    /\ UNCHANGED << serial, mqtt, conf_lines, g_device_config, tick, verdict >>

\* __io_getchar() of the waiting loop, the blocking read: it returns with
\* the next character the UART receives, and the wait returns true.
WaitGetChar ==
    /\ pc = "getchar"
    /\ console = "key"
    /\ pc' = "setup"
    /\ console' = "operator"
    /\ start_time' = 0
    /\ lag' = 0
    /\ UNCHANGED manager_vars
    /\ UNCHANGED << serial, mqtt, conf_lines, g_device_config, tick, delay_start, verdict >>

\* HAL_Delay(100) returns.
DelayDone ==
    /\ pc = "delay"
    /\ Elapsed(tick, delay_start) >= 1
    /\ pc' = "poll"
    /\ delay_start' = 0
    /\ lag' = 0
    /\ UNCHANGED manager_vars
    /\ UNCHANGED << serial, mqtt, conf_lines, g_device_config, tick, start_time, console, verdict >>

\* The wait returned false: the loaded record is kept, or the defaults are
\* taken when the load did not return CONFIG_OK.
AfterWait ==
    /\ pc = "timeout"
    /\ g_device_config' = IF call.result = "CONFIG_OK" THEN g_device_config
                          ELSE DeviceDefaults
    /\ pc' = "print"
    /\ lag' = 0
    /\ UNCHANGED manager_vars
    /\ UNCHANGED << serial, mqtt, conf_lines, tick, start_time, delay_start, console, verdict >>

\* "Active configuration": printf(g_device_config.wifi_ssid), .mqtt_hostname
\* and .mqtt_client_id, then the return to mqtt_thread_entry and
\* tx_thread_sleep.  An undefined printf either gets through or ends the
\* thread in the fault handler.
PrintActive ==
    /\ pc = "print"
    /\ \E next \in { "sleep", "fault" } :
        /\ next = "fault" =>
              \E off \in { OffWifiSsid, OffMqttHostname, OffMqttClientId } :
                  PrintfUndefined(g_device_config, off)
        /\ pc' = next
        /\ delay_start' = IF next = "sleep" THEN tick ELSE 0
    /\ lag' = 0
    /\ UNCHANGED manager_vars
    /\ UNCHANGED << serial, mqtt, conf_lines, g_device_config, tick, start_time, console, verdict >>

\* tx_thread_sleep returns and the thread calls wwd_network_init.
SleepDone ==
    /\ pc = "sleep"
    /\ Elapsed(tick, delay_start) >= SleepTicks
    /\ pc' = "network"
    /\ delay_start' = 0
    /\ lag' = 0
    /\ UNCHANGED manager_vars
    /\ UNCHANGED << serial, mqtt, conf_lines, g_device_config, tick, start_time, console, verdict >>

\* The thread is in wwd_network_init or wwd_network_connect and the call
\* returns: with a status that is not zero the thread prints the error and
\* mqtt_thread_entry returns; after wwd_network_connect has returned zero
\* the WiFi connection is established and the thread calls
\* azure_iot_mqtt_entry.
NetworkStep ==
    /\ pc \in { "network", "connect" }
    /\ \E status \in { 0, 1 } :
        pc' = IF status # 0 THEN "thread_end"
              ELSE IF pc = "network" THEN "connect" ELSE "mqtt_entry"
    /\ UNCHANGED manager_vars
    /\ UNCHANGED << serial, mqtt, conf_lines, g_device_config, tick, start_time, delay_start,
                    lag, console, verdict >>

\* What the operator may type in the dialogue: Enter at every prompt, or a
\* one-character wifi_ssid, or "0" as the telemetry interval, or both.
Typings ==
    { [NoTyping EXCEPT !.ssid = a, !.interval = i] :
        a \in { << >>, << 122 >> }, i \in { << >>, << 48 >> } }

\* The wait returned true: config_manager_prompt_and_store(&g_device_config).
\* After a load that returned CONFIG_OK its result is not looked at; after a
\* load that failed, a failed setup is followed by
\* config_manager_get_defaults(&g_device_config).  The dialogue blocks in
\* __io_getchar until the operator has answered.
Setup ==
    /\ pc = "setup"
    /\ \E typed \in Typings, f \in FaultChoices(SaveFaultKinds(build)) :
        \E r \in { config_manager_prompt_and_store(build, State, typed, f) } :
            /\ Becomes(r.s)
            /\ Count(f)
            /\ g_device_config' =
                  IF call.result = "CONFIG_OK" \/ r.result = "CONFIG_OK" THEN r.out
                  ELSE config_manager_get_defaults(r.s)
            /\ call' = Call("prompt_and_store", FALSE, r.out, f, r.result, ZeroConfig,
                            0, r.ops)
    /\ pc' = "print"
    /\ lag' = 0
    /\ UNCHANGED << build, last_save, serial, mqtt, conf_lines, tick, start_time, delay_start,
                    console, verdict >>

\* The steps of the thread once the load has returned.
ThreadStep == WaitPoll \/ WaitGetChar \/ DelayDone \/ AfterWait \/ PrintActive \/ SleepDone

\* The tick interrupt.  A thread that is ready runs within MaxLag ticks.
Tick ==
    /\ Ready => lag < MaxLag
    /\ tick' = (tick + 1) % TickMod
    /\ lag' = IF Ready THEN lag + 1 ELSE 0
    /\ UNCHANGED manager_vars
    /\ UNCHANGED << serial, mqtt, conf_lines, g_device_config, pc, start_time, delay_start, console,
                    verdict >>

\* The operator presses a key: the UART holds a character.
KeyPress ==
    /\ console = "operator"
    /\ pc \in { "poll", "delay", "getchar" }
    /\ console' = "key"
    /\ UNCHANGED manager_vars
    /\ UNCHANGED << serial, mqtt, conf_lines, g_device_config, pc, tick, start_time, delay_start, lag,
                    verdict >>

NextStartup == StartupLoad \/ ThreadStep \/ Setup \/ NetworkStep \/ Tick \/ KeyPress

\* The tick source keeps advancing and the scheduler runs a ready thread.
\* The device is powered up when its user pleases: the first step, which has
\* no wait in it, is under no fairness.
SpecStartup ==
    InitStartup /\ [][NextStartup]_vars /\ WF_vars(Tick) /\ WF_vars(ThreadStep)

(***************************************************************************)
(* legacy/mqtt.c: azure_iot_mqtt_entry, which main.c calls once the        *)
(* network is up.  The record in g_device_config is an input; the network  *)
(* (which ports of the broker accept a connection, whether the MQTT        *)
(* connect succeeds, when the broker drops the session) is nondeterministic.*)
(* Time is counted in seconds (NX_IP_PERIODIC_RATE ticks).                 *)
(***************************************************************************)
\* The characters of a text field before its terminator: what strlen and %s
\* see of it.
CStr(text) ==
    IF \E i \in 1..Len(text) : text[i] = 0
    THEN SubSeq(text, 1, Min({ i \in 1..Len(text) : text[i] = 0 }) - 1)
    ELSE text

\* static const INT telemetry_interval = DEFAULT_TELEMETRY_INTERVAL;
mqtt_telemetry_interval(cfg) == DEFAULT_TELEMETRY_INTERVAL

\* Ports and intervals of the records the client is started with.
TelemetryPorts == { MQTT_BROKER_PORT_DEFAULT, 8883, 1884 }
TelemetryIntervals == { 1, DEFAULT_TELEMETRY_INTERVAL, 12 }
TelemetryInputs ==
    { SetField(SetField(r, OffTelemetry, LE32(i)), OffMqttPort, LE16(p)) :
        r \in { RecA, RecB }, i \in TelemetryIntervals, p \in TelemetryPorts }

InitTelemetry ==
    /\ build = BuildEeprom
    /\ g_ram_config = ZeroConfig
    /\ g_ram_config_valid = FALSE
    /\ g_config_needs_flash_save = FALSE
    /\ flash = ErasedRegion
    /\ flash_locked = TRUE
    /\ faults = 0
    /\ call = NoCall
    /\ last_save = NoSave
    /\ conf_lines = << >>
    /\ g_device_config \in TelemetryInputs
    /\ pc = "mqtt_entry"
    /\ tick = 0
    /\ start_time = 0
    /\ delay_start = 0
    /\ lag = 0
    /\ console = "silent"
    /\ verdict = NoVerdict
    /\ mqtt = NoMqtt
    /\ serial = NoSerial

\* What the actions of the client leave alone.
MqttFrame ==
    /\ UNCHANGED manager_vars
    /\ UNCHANGED << conf_lines, g_device_config, tick, start_time, delay_start, lag,
                    console, verdict, serial >>

\* UINT server_port = MQTT_BROKER_PORT; telemetry_state = 0;
\* nxd_mqtt_client_create(.., MQTT_CLIENT_ID, strlen(MQTT_CLIENT_ID), ..) and
\* the resolution of MQTT_BROKER_HOSTNAME.
MqttCreate ==
    /\ pc = "mqtt_entry"
    /\ mqtt' = [mqtt EXCEPT !.server_port = U16(mqtt_port(g_device_config)),
                            !.client_id = CStr(mqtt_client_id(g_device_config)),
                            !.hostname = CStr(mqtt_hostname(g_device_config)),
                            !.telemetry_state = 0]
    /\ pc' = "tcp_test"
    /\ MqttFrame

\* UINT test_ports[] = {server_port, 1883, 8883};
test_ports(server_port) == << server_port, 1883, 8883 >>

\* The TCP test before the MQTT connect: when the socket cannot be created
\* or bound the test is skipped; else the ports of test_ports are tried in
\* order and server_port becomes the first that accepts the connection.
\* open is the set of ports on which the broker accepts.
TcpTestResult(server_port, bound, open) ==
    LET ports == test_ports(server_port)
        hits == { i \in 1..Len(ports) : ports[i] \in open }
    IN  IF ~bound \/ hits = {} THEN server_port ELSE ports[Min(hits)]

TcpTest ==
    /\ pc = "tcp_test"
    /\ \E bound \in BOOLEAN, open \in SUBSET { mqtt.server_port, 1883, 8883 } :
          mqtt' = [mqtt EXCEPT !.server_port = TcpTestResult(mqtt.server_port, bound, open)]
    /\ pc' = "mqtt_connect"
    /\ MqttFrame

\* nxd_mqtt_client_connect(&mqtt_client, &server_ip, server_port, ..), tried
\* three times: the entry returns the status when all three fail.
MqttConnect ==
    /\ pc = "mqtt_connect"
    /\ \E ok \in BOOLEAN :
          /\ mqtt' = [mqtt EXCEPT !.connected = ok]
          /\ pc' = IF ok THEN "telemetry_wait" ELSE "mqtt_failed"
    /\ MqttFrame

\* One second of tx_event_flags_get(&mqtt_events, TELEMETRY_INTERVAL_EVENT,
\* TX_OR_CLEAR, &events, telemetry_interval * NX_IP_PERIODIC_RATE).
TelemetryWait ==
    /\ pc = "telemetry_wait"
    /\ mqtt.waited < mqtt_telemetry_interval(g_device_config)
    /\ mqtt' = [mqtt EXCEPT !.waited = @ + 1]
    /\ UNCHANGED pc
    /\ MqttFrame

\* The wait ends and the loop publishes the reading of telemetry_state.
PublishAfter(m) ==
    [m EXCEPT !.period = m.waited, !.published = TRUE, !.waited = 0,
              !.telemetry_state = (m.telemetry_state + 1) % 6]

\* The wait times out.
TelemetryTimeout ==
    /\ pc = "telemetry_wait"
    /\ mqtt.waited = mqtt_telemetry_interval(g_device_config)
    /\ mqtt' = PublishAfter(mqtt)
    /\ UNCHANGED pc
    /\ MqttFrame

\* mqtt_disconnect_callback sets TELEMETRY_INTERVAL_EVENT: the wait ends at
\* once.
TelemetryEvent ==
    /\ pc = "telemetry_wait"
    /\ mqtt.connected
    /\ mqtt' = [PublishAfter(mqtt) EXCEPT !.connected = FALSE]
    /\ UNCHANGED pc
    /\ MqttFrame

NextTelemetry ==
    MqttCreate \/ TcpTest \/ MqttConnect \/ TelemetryWait \/ TelemetryTimeout
        \/ TelemetryEvent

SpecTelemetry == InitTelemetry /\ [][NextTelemetry]_vars

(***************************************************************************)
(* The word loops on their own: a buffer of any length is programmed over *)
(* a region that holds earlier content, by eeprom_write_data and by the    *)
(* while loop of config_manager_save / config_manager_delayed_flash_write. *)
(***************************************************************************)
MaxWriteLen == 6
WriteRegionSize == AlignUp(MaxWriteLen, 4)

\* Buffers of 1..MaxWriteLen bytes; the values stand for a byte with bits
\* of both kinds and for 0xFF.
WriteBytes == { 90, 255 }
WriteBuffers == UNION { [1..n -> WriteBytes] : n \in 1..MaxWriteLen }

\* The region before the write: erased, or holding data of an earlier write
\* (the EEPROM build never erases, and FLASH_ERASE_DISABLED skips the erase).
WriteRegions == { Fill(WriteRegionSize, 255), Fill(WriteRegionSize, 165) }

InitWrite ==
    /\ build = BuildEeprom
    /\ g_ram_config = ZeroConfig
    /\ g_ram_config_valid = FALSE
    /\ g_config_needs_flash_save = FALSE
    /\ flash \in WriteRegions
    /\ flash_locked = TRUE
    /\ faults = 0
    /\ call = NoCall
    /\ last_save = NoSave
    /\ conf_lines = << >>
    /\ g_device_config \in WriteBuffers      \* the bytes at data / src_data
    /\ pc = "write"
    /\ tick = 0
    /\ start_time = 0
    /\ delay_start = 0
    /\ lag = 0
    /\ console = "silent"
    /\ verdict = NoVerdict
    /\ mqtt = NoMqtt
    /\ serial = NoSerial

WriteFrame ==
    UNCHANGED << build, g_ram_config, g_ram_config_valid, g_config_needs_flash_save,
                 faults, last_save, conf_lines, g_device_config, tick, start_time,
                 delay_start, lag, console, verdict, mqtt, serial >>

\* eeprom_write_data(CONFIG_FLASH_ADDRESS, data, size)
WriteEepromData ==
    /\ pc = "write"
    /\ \E r \in { eeprom_write_data([flash |-> flash, locked |-> flash_locked],
                                      g_device_config, Len(g_device_config), NoFault) } :
          /\ flash' = r.m.flash
          /\ flash_locked' = r.m.locked
          /\ call' = [op |-> "eeprom_write_data", size |-> Len(g_device_config),
                      before |-> flash, ops |-> r.ops]
    /\ pc' = "written"
    /\ WriteFrame

\* HAL_FLASH_Unlock(); the while loop over bytes_remaining; HAL_FLASH_Lock()
WriteWordLoop ==
    /\ pc = "write"
    /\ \E r \in { FlashProgramLoop(flash, g_device_config, 0, NoFault) } :
          /\ flash' = r.flash
          /\ flash_locked' = HAL_FLASH_Lock(HAL_FLASH_Unlock(
                                 [flash |-> flash, locked |-> flash_locked])).locked
          /\ call' = [op |-> "word_loop", size |-> Len(g_device_config),
                      before |-> flash, ops |-> r.ops + 2]
    /\ pc' = "written"
    /\ WriteFrame

NextWrite == WriteEepromData \/ WriteWordLoop

SpecWrite == InitWrite /\ [][NextWrite]_vars

(***************************************************************************)
(* The setup dialogue key by key: config_manager_prompt_and_store with     *)
(* read_string_from_serial as the loop it is, one __io_getchar per step.   *)
(* The firmware's blob is made of conf_lines, as for the defaults          *)
(* provider.                                                               *)
(***************************************************************************)
\* Keys read by one call of read_string_from_serial before the operator
\* presses Enter.
MaxKeys == 2

\* Enter, backspace, a control character that is neither, and a printable
\* character (the digit 1).
ConsoleKeys == { 13, 8, 1, 49 }

\* The prompts in their order: the field, and max_len of the read
\* (sizeof(buffer) = 16 in read_int_from_serial).
Prompts ==
    << [name |-> "wifi_ssid", kind |-> "text", off |-> OffWifiSsid,
        max_len |-> CONFIG_SSID_MAX_LEN, size |-> CONFIG_SSID_MAX_LEN],
       [name |-> "wifi_password", kind |-> "text", off |-> OffWifiPassword,
        max_len |-> CONFIG_PASSWORD_MAX_LEN, size |-> CONFIG_PASSWORD_MAX_LEN],
       [name |-> "wifi_mode", kind |-> "int", off |-> OffWifiMode,
        max_len |-> 16, size |-> 4],
       [name |-> "mqtt_hostname", kind |-> "text", off |-> OffMqttHostname,
        max_len |-> CONFIG_HOSTNAME_MAX_LEN, size |-> CONFIG_HOSTNAME_MAX_LEN],
       [name |-> "mqtt_port", kind |-> "int", off |-> OffMqttPort,
        max_len |-> 16, size |-> 2],
       [name |-> "mqtt_client_id", kind |-> "text", off |-> OffMqttClientId,
        max_len |-> CONFIG_CLIENT_ID_MAX_LEN, size |-> CONFIG_CLIENT_ID_MAX_LEN],
       [name |-> "mqtt_username", kind |-> "text", off |-> OffMqttUsername,
        max_len |-> CONFIG_USERNAME_MAX_LEN, size |-> CONFIG_USERNAME_MAX_LEN],
       [name |-> "mqtt_password", kind |-> "text", off |-> OffMqttPassword,
        max_len |-> CONFIG_PASSWORD_MAX_LEN, size |-> CONFIG_PASSWORD_MAX_LEN],
       [name |-> "telemetry_interval", kind |-> "int", off |-> OffTelemetry,
        max_len |-> 16, size |-> 4] >>

PromptNames == { Prompts[k].name : k \in 1..Len(Prompts) }
PromptAt(name) == CHOOSE k \in 1..Len(Prompts) : Prompts[k].name = name

\* The blobs the dialogue is run with: none, a short wifi_ssid line, and a
\* wifi_ssid line whose value is longer than the field.
DialogueBlobs == { << >>, << 3 >>, << 14 >> }

\* The record the caller passes in: never filled, or a loaded record.
DialogueRecords == { ZeroConfig, RecA }

InitDialogue ==
    /\ build = BuildEeprom
    /\ g_ram_config = ZeroConfig
    /\ g_ram_config_valid = FALSE
    /\ g_config_needs_flash_save = FALSE
    /\ flash = ErasedRegion
    /\ flash_locked = TRUE
    /\ faults = 0
    /\ call = NoCall
    /\ last_save = NoSave
    /\ conf_lines \in DialogueBlobs
    /\ g_device_config \in DialogueRecords
    /\ pc = "dialogue"
    /\ tick = 0
    /\ start_time = 0
    /\ delay_start = 0
    /\ lag = 0
    /\ console = "operator"
    /\ verdict = NoVerdict
    /\ mqtt = NoMqtt
    /\ serial = NoSerial

DialogueFrame ==
    /\ UNCHANGED manager_vars
    /\ UNCHANGED << conf_lines, tick, start_time, delay_start, lag, console, verdict, mqtt >>

\* read_string_from_serial is entered: index = 0; buffer[0] = '\0'.
SerialEntered(passed) ==
    [index |-> 0, buffer |-> << >>, entered |-> FALSE, keys |-> 0, outside |-> FALSE,
     passed |-> passed, typed |-> FALSE]

\* config_manager_prompt_and_store(&g_device_config) up to the first
\* prompt: config_manager_get_defaults(config).
DialogueStart ==
    /\ pc = "dialogue"
    /\ g_device_config' = GetDefaultsFrom(BlobText(conf_lines))
    /\ serial' = SerialEntered(g_device_config)
    /\ pc' = Prompts[1].name
    /\ DialogueFrame

\* One pass of the loop of read_string_from_serial: while (index <
\* max_len - 1) { c = __io_getchar(); ... }.  A write to buffer[index] at
\* index >= max_len would be outside the buffer the caller gave.
GetChar ==
    /\ pc \in PromptNames
    /\ ~serial.entered
    /\ serial.index < Prompts[PromptAt(pc)].max_len - 1
    /\ \E c \in ConsoleKeys :
        /\ serial.keys >= MaxKeys => c = 13
        /\ serial' =
              IF c = 13 \/ c = 10
              THEN [serial EXCEPT !.entered = TRUE,
                                  !.outside = @ \/ serial.index >= Prompts[PromptAt(pc)].max_len]
              ELSE IF c = 8 \/ c = 127
              THEN [serial EXCEPT !.index = IF @ > 0 THEN @ - 1 ELSE @,
                                  !.buffer = IF Len(@) > 0 THEN SubSeq(@, 1, Len(@) - 1) ELSE @,
                                  !.keys = @ + 1]
              ELSE IF c >= 32 /\ c <= 126
              THEN [serial EXCEPT !.index = @ + 1,
                                  !.buffer = Append(@, c),
                                  !.keys = @ + 1,
                                  !.outside = @ \/ serial.index >= Prompts[PromptAt(pc)].max_len]
              ELSE [serial EXCEPT !.keys = @ + 1]
    /\ UNCHANGED << g_device_config, pc >>
    /\ DialogueFrame

\* The answer applied to the field: a text that is not empty is copied with
\* strncpy and terminated; an integer is the field itself on an empty line
\* and atoi of the line otherwise.
Answered(config, prompt, answer) ==
    IF prompt.kind = "text"
    THEN IF Len(answer) > 0 THEN SetText(config, prompt.off, prompt.size, answer) ELSE config
    ELSE IF Len(answer) = 0 THEN config
    ELSE IF prompt.size = 2 THEN SetField(config, prompt.off, CastU16(atoi(answer)))
    ELSE SetField(config, prompt.off, CastU32(atoi(answer)))

\* The loop is left, by Enter or because max_len - 1 characters are stored:
\* buffer[max_len - 1] = '\0'; the caller applies the answer and goes to the
\* next prompt, or to the save.
AnswerPrompt ==
    /\ pc \in PromptNames
    /\ serial.entered \/ serial.index >= Prompts[PromptAt(pc)].max_len - 1
    /\ g_device_config' = Answered(g_device_config, Prompts[PromptAt(pc)], serial.buffer)
    /\ serial' = [SerialEntered(serial.passed) EXCEPT
                     !.typed = serial.typed \/ Len(serial.buffer) > 0]
    /\ pc' = IF PromptAt(pc) < Len(Prompts) THEN Prompts[PromptAt(pc) + 1].name
              ELSE "dialogue_save"
    /\ DialogueFrame

\* config_manager_save(config) and the return.
DialogueSave ==
    /\ pc = "dialogue_save"
    /\ \E r \in { config_manager_save(build, State, FALSE, g_device_config, NoFault) } :
        /\ Becomes(r.s)
        /\ call' = Call("prompt_and_store", FALSE, g_device_config, NoFault, r.result,
                        g_device_config, 0, r.ops)
    /\ pc' = "dialogue_done"
    /\ UNCHANGED << build, faults, last_save, g_device_config, conf_lines, tick,
                    start_time, delay_start, lag, console, verdict, mqtt, serial >>

NextDialogue == DialogueStart \/ GetChar \/ AnswerPrompt \/ DialogueSave

SpecDialogue == InitDialogue /\ [][NextDialogue]_vars

(***************************************************************************)
(* legacy/mqtt.c: azure_iot_mqtt_entry from the resolution of the broker's *)
(* address to the subscription, one step for each turn of its two retry    *)
(* loops.  MQTT_BROKER_HOSTNAME is a text of the real capacity here; what   *)
(* the DNS, the login, the TCP test, the broker and the subscription       *)
(* answer is nondeterministic.  Times are in seconds.                      *)
(***************************************************************************)
\* isspace and isdigit of the C locale.
IsSpace(c) == c \in { 32, 9, 10, 11, 12, 13 }
IsDigit(c) == c >= 48 /\ c <= 57

\* The index of the first character of str at or after i that is not white
\* space.
RECURSIVE SkipWhite(_, _)
SkipWhite(str, i) ==
    IF i <= Len(str) /\ IsSpace(str[i]) THEN SkipWhite(str, i + 1) ELSE i

\* The digits of str from i on: the value so far is v.  The texts looked at
\* have few digits: no value reaches 2^32.
RECURSIVE ScanDigits(_, _, _)
ScanDigits(str, i, v) ==
    IF i <= Len(str) /\ IsDigit(str[i])
    THEN ScanDigits(str, i + 1, v * 10 + (str[i] - 48))
    ELSE [next |-> i, value |-> v]

\* One %u of sscanf at index i: white space is skipped, a sign is accepted,
\* at least one digit is needed; a '-' negates the value as unsigned: the
\* negative number -v stands for the UINT 2^32 - v.
ScanUnsigned(str, i) ==
    LET j == SkipWhite(str, i)
        signed == j <= Len(str) /\ str[j] \in { 43, 45 }
        k == IF signed THEN j + 1 ELSE j
        d == ScanDigits(str, k, 0)
    IN  IF d.next = k THEN [ok |-> FALSE, next |-> i, value |-> 0]
        ELSE [ok |-> TRUE, next |-> d.next,
              value |-> IF signed /\ str[j] = 45 THEN 0 - d.value ELSE d.value]

\* sscanf(str, "%u.%u.%u.%u", ..) from the n-th conversion on, at index i:
\* the values converted.  A '.' of the format has to match the input; what
\* follows the last conversion is not looked at.
RECURSIVE ScanQuad(_, _, _)
ScanQuad(str, i, n) ==
    LET u == ScanUnsigned(str, i)
    IN  IF ~u.ok THEN << >>
        ELSE IF n = 4 THEN << u.value >>
        ELSE IF u.next <= Len(str) /\ str[u.next] = 46
             THEN << u.value >> \o ScanQuad(str, u.next + 1, n + 1)
        ELSE << u.value >>

\* The text is four decimal numbers separated by dots and nothing else.
IsDottedQuad(str) ==
    /\ Len(str) > 0
    /\ \A i \in 1..Len(str) : IsDigit(str[i]) \/ str[i] = 46
    /\ Cardinality({ i \in 1..Len(str) : str[i] = 46 }) = 3
    /\ \A i \in 1..Len(str) :
          str[i] = 46 => /\ i > 1 /\ i < Len(str)
                         /\ IsDigit(str[i - 1]) /\ IsDigit(str[i + 1])

\* IP_ADDRESS(192, 168, 1, 100)
FallbackIp == << 192, 168, 1, 100 >>
\* The address a successful DNS query yields.
ResolvedIp == << 10, 0, 0, 7 >>

\* UINT max_retries = 3; ULONG timeouts[3] = {5, 10, 15} * NX_IP_PERIODIC_RATE
max_retries == 3
dns_timeouts == << 5, 10, 15 >>
\* const UINT MAX_ATTEMPTS = 3; timeouts[3] = {5, 10, MQTT_TIMEOUT}
MAX_ATTEMPTS == 3
MQTT_TIMEOUT == 30
\* A variant that waits MQTT_TIMEOUT at every attempt.
timeouts_all_long == << MQTT_TIMEOUT, MQTT_TIMEOUT, MQTT_TIMEOUT >>

timeouts == << 5, 10, MQTT_TIMEOUT >>

\* What nx_dns_host_by_name_get and nxd_mqtt_client_connect may return.
DnsStatuses == { "NX_SUCCESS", "NX_DNS_QUERY_FAILED", "NX_DNS_NO_SERVER", "NX_DNS_TIMEOUT" }
ConnectStatuses ==
    { "NXD_MQTT_SUCCESS", "NXD_MQTT_CONNECT_FAILURE", "NXD_MQTT_NOT_CONNECTED",
      "NXD_MQTT_COMMUNICATION_FAILURE" }

\* The broker texts: "1.2.3.4", "1.2.3.256", "b.c", "1.2.3", "1.2.3.4.c",
\* "256.2.3.4.c" and " 1.2.3.4x".
BrokerNames ==
    { << 49, 46, 50, 46, 51, 46, 52 >>,
      << 49, 46, 50, 46, 51, 46, 50, 53, 54 >>,
      << 98, 46, 99 >>,
      << 49, 46, 50, 46, 51 >>,
      << 49, 46, 50, 46, 51, 46, 52, 46, 99 >>,
      << 50, 53, 54, 46, 50, 46, 51, 46, 52, 46, 99 >>,
      << 32, 49, 46, 50, 46, 51, 46, 52, 120 >> }

\* The entry has created its client and registered its callbacks.
InitBroker ==
    /\ build = BuildEeprom
    /\ g_ram_config = ZeroConfig
    /\ g_ram_config_valid = FALSE
    /\ g_config_needs_flash_save = FALSE
    /\ flash = ErasedRegion
    /\ flash_locked = TRUE
    /\ faults = 0
    /\ call = NoCall
    /\ last_save = NoSave
    /\ conf_lines = << >>
    /\ g_device_config \in { RecA, SetText(RecA, OffMqttUsername, CONFIG_USERNAME_MAX_LEN, << 117 >>) }
    /\ pc = "resolve"
    /\ tick = 0
    /\ start_time = 0
    /\ delay_start = 0
    /\ lag = 0
    /\ console = "silent"
    /\ verdict = NoVerdict
    /\ \E name \in BrokerNames :
          mqtt = [NoMqtt EXCEPT !.hostname = name,
                                !.server_port = U16(mqtt_port(g_device_config)),
                                !.client_id = CStr(mqtt_client_id(g_device_config))]
    /\ serial = NoSerial

\* if (sscanf(MQTT_BROKER_HOSTNAME, "%u.%u.%u.%u", ..) == 4): the address is
\* taken from the text when every component is at most 255, and the entry
\* returns NX_DNS_QUERY_FAILED otherwise; with fewer conversions the text
\* goes to the DNS.
ResolveAddress ==
    /\ pc = "resolve"
    /\ \E ip \in { ScanQuad(mqtt.hostname, 1, 1) } :
          IF Len(ip) = 4
          THEN IF \A i \in 1..4 : ip[i] >= 0 /\ ip[i] <= 255
               THEN /\ mqtt' = [mqtt EXCEPT !.server_ip = ip]
                    /\ pc' = "login"
               ELSE /\ mqtt' = [mqtt EXCEPT !.status = "NX_DNS_QUERY_FAILED"]
                    /\ pc' = "returned"
          ELSE /\ mqtt' = mqtt
               /\ pc' = "dns"
    /\ MqttFrame

\* One turn of for (retry = 0; retry < max_retries; retry++): the query with
\* timeouts[retry]; success leaves the loop, the last failure takes the
\* fallback address and sets status = NX_SUCCESS.
DnsAttempt ==
    /\ pc = "dns"
    /\ mqtt.retry < max_retries
    /\ \E status \in DnsStatuses :
          /\ mqtt' =
                IF status = "NX_SUCCESS"
                THEN [mqtt EXCEPT !.status = status, !.server_ip = ResolvedIp,
                                  !.dns_queries = Append(@, dns_timeouts[mqtt.retry + 1])]
                ELSE IF mqtt.retry = max_retries - 1
                THEN [mqtt EXCEPT !.status = "NX_SUCCESS", !.server_ip = FallbackIp,
                                  !.retry = @ + 1,
                                  !.dns_queries = Append(@, dns_timeouts[mqtt.retry + 1])]
                ELSE [mqtt EXCEPT !.status = status, !.retry = @ + 1,
                                  !.dns_queries = Append(@, dns_timeouts[mqtt.retry + 1])]
          /\ pc' = IF status = "NX_SUCCESS" \/ mqtt.retry = max_retries - 1
                   THEN "login" ELSE "dns"
    /\ MqttFrame

\* if (strlen(MQTT_USERNAME) > 0) nxd_mqtt_client_login_set(..): a failure
\* is returned.
BrokerLogin ==
    /\ pc = "login"
    /\ \E status \in { "NXD_MQTT_SUCCESS", "NXD_MQTT_INVALID_PARAMETER" } :
          /\ StrEmpty(mqtt_username(g_device_config)) => status = "NXD_MQTT_SUCCESS"
          /\ mqtt' = IF StrEmpty(mqtt_username(g_device_config)) THEN mqtt
                     ELSE [mqtt EXCEPT !.status = status]
          /\ pc' = IF status = "NXD_MQTT_SUCCESS" THEN "tcp_test" ELSE "returned"
    /\ MqttFrame

\* One turn of while (connection_attempts < MAX_ATTEMPTS): the first turn
\* follows status = NX_NOT_SUCCESSFUL; nxd_mqtt_client_connect with
\* timeouts[connection_attempts]; success leaves the loop, a failure counts.
\* After the loop a status that is not NXD_MQTT_SUCCESS is returned.
ConnectAttempt ==
    /\ pc = "mqtt_connect"
    /\ mqtt.connection_attempts < MAX_ATTEMPTS
    /\ \E status \in ConnectStatuses :
          /\ mqtt' = [mqtt EXCEPT
                        !.status = status,
                        !.connected = (status = "NXD_MQTT_SUCCESS"),
                        !.connection_attempts = IF status = "NXD_MQTT_SUCCESS" THEN @ ELSE @ + 1,
                        !.connects = Append(@, timeouts[mqtt.connection_attempts + 1])]
          /\ pc' = IF status = "NXD_MQTT_SUCCESS" THEN "subscribe"
                   ELSE IF mqtt.connection_attempts + 1 < MAX_ATTEMPTS THEN "mqtt_connect"
                   ELSE "returned"
    /\ MqttFrame

\* nxd_mqtt_client_subscribe(&mqtt_client, MQTT_COMMAND_TOPIC, ..): a failure
\* is returned; the subscription to the LED topic may fail; then the
\* telemetry loop begins.
Subscribe ==
    /\ pc = "subscribe"
    /\ \E status \in { "NXD_MQTT_SUCCESS", "NXD_MQTT_COMMUNICATION_FAILURE" } :
          /\ mqtt' = [mqtt EXCEPT !.status = status,
                                  !.subscribed = (status = "NXD_MQTT_SUCCESS")]
          /\ pc' = IF status = "NXD_MQTT_SUCCESS" THEN "telemetry_wait" ELSE "returned"
    /\ MqttFrame

NextBroker ==
    ResolveAddress \/ DnsAttempt \/ BrokerLogin \/ TcpTest \/ ConnectAttempt \/ Subscribe

SpecBroker == InitBroker /\ [][NextBroker]_vars

(***************************************************************************)
(* common/azure/azure_mqtt.c: the client for Azure IoT Hub.  The AZURE_MQTT *)
(* object has been created by azure_mqtt_create; the application registers *)
(* callbacks and connects, the broker delivers messages and drops the      *)
(* connection.  What the library calls return is nondeterministic.         *)
(***************************************************************************)
\* The AZURE_MQTT object after azure_mqtt_create: whether each callback
\* pointer is set, how often the mutex is held, whether a NULL pointer was
\* called, what the last message led to, whether the TLS session of the
\* client is allocated, whether nx_secure_tls_session_create was called
\* while it was, and the status of the last call.
NoAzureMqtt ==
    [cb_ptr_mqtt_invoke_direct_method |-> FALSE,
     cb_ptr_mqtt_c2d_message |-> FALSE,
     cb_ptr_mqtt_device_twin_desired_prop_callback |-> FALSE,
     azure_mqtt_mutex |-> 0, null_called |-> FALSE, delivered |-> "none",
     tls_session |-> FALSE, created_over |-> FALSE, status |-> "none"]

AzureCallbacks ==
    { "cb_ptr_mqtt_invoke_direct_method", "cb_ptr_mqtt_c2d_message",
      "cb_ptr_mqtt_device_twin_desired_prop_callback" }

\* azure_mqtt_register_*_callback(azure_mqtt, callback) for a non-null
\* azure_mqtt: NX_PTR_ERROR when the pointer is already set.
azure_mqtt_register_callback(m, which) ==
    IF m[which] THEN [m EXCEPT !.status = "NX_PTR_ERROR"]
    ELSE [m EXCEPT ![which] = TRUE, !.status = "NX_SUCCESS"]

\* The topics a message may carry: for a direct method, with and without
\* the '/' and "$rid=" process_direct_method looks for; a device twin
\* response; a cloud-to-device message with and without a property; a
\* desired-property update; any other topic.
AzureTopics ==
    { "direct_method", "direct_method_short", "twin_res", "c2d", "c2d_short",
      "desired", "unknown" }

\* The callback pointer the processing of a topic calls, "none" when the
\* function returns before any call.
CallbackFor(topic) ==
    IF topic = "direct_method" THEN "cb_ptr_mqtt_invoke_direct_method"
    ELSE IF topic = "c2d" THEN "cb_ptr_mqtt_c2d_message"
    ELSE IF topic = "desired" THEN "cb_ptr_mqtt_device_twin_desired_prop_callback"
    ELSE "none"

\* process_direct_method and process_c2d_message test the pointer for NULL
\* before the call; process_device_twin_desired_prop_update does not.
NullChecked(topic) == topic # "desired"

\* The calls of azure_mqtt_connect that can fail, in the order of the code,
\* and those after which the failure path calls nx_secure_tls_session_delete.
ConnectCalls ==
    << "create_sas_token", "nx_secure_tls_session_create", "nxd_mqtt_client_login_set",
       "nxd_dns_host_by_name_get", "nxd_mqtt_client_secure_connect",
       "subscribe_device_message", "subscribe_direct_method", "subscribe_twin_res",
       "subscribe_twin_desired" >>
DeletesOnFailure ==
    { "nxd_mqtt_client_login_set", "nxd_dns_host_by_name_get",
      "nxd_mqtt_client_secure_connect", "subscribe_device_message",
      "subscribe_direct_method", "subscribe_twin_res" }

\* azure_mqtt_connect(azure_mqtt) in which the call named failed fails
\* ("none": every call succeeds).
azure_mqtt_connect(m, failed) ==
    IF failed = "create_sas_token" THEN [m EXCEPT !.status = "NX_PTR_ERROR"]
    ELSE IF failed = "nx_secure_tls_session_create" THEN [m EXCEPT !.status = failed]
    ELSE [m EXCEPT !.created_over = @ \/ m.tls_session,
                   !.tls_session = failed \notin DeletesOnFailure,
                   !.status = IF failed = "none" THEN "NXD_MQTT_SUCCESS" ELSE failed]

InitAzure ==
    /\ build = BuildEeprom
    /\ g_ram_config = ZeroConfig
    /\ g_ram_config_valid = FALSE
    /\ g_config_needs_flash_save = FALSE
    /\ flash = ErasedRegion
    /\ flash_locked = TRUE
    /\ faults = 0
    /\ call = NoCall
    /\ last_save = NoSave
    /\ conf_lines = << >>
    /\ g_device_config = ZeroConfig
    /\ pc = "azure_created"
    /\ tick = 0
    /\ start_time = 0
    /\ delay_start = 0
    /\ lag = 0
    /\ console = "silent"
    /\ verdict = NoVerdict
    /\ mqtt = NoAzureMqtt
    /\ serial = NoSerial

\* The application registers a callback.
RegisterCallback ==
    /\ pc \in { "azure_created", "azure_connected" }
    /\ \E which \in AzureCallbacks : mqtt' = azure_mqtt_register_callback(mqtt, which)
    /\ UNCHANGED pc
    /\ MqttFrame

\* The application calls azure_mqtt_connect.
AzureConnect ==
    /\ pc = "azure_created"
    /\ \E failed \in { ConnectCalls[i] : i \in 1..Len(ConnectCalls) } \cup { "none" } :
          /\ mqtt' = azure_mqtt_connect(mqtt, failed)
          /\ pc' = IF failed = "none" THEN "azure_connected" ELSE "azure_failed"
    /\ MqttFrame

\* mqtt_notify_cb(client_ptr, number_of_messages): tx_mutex_get, the message
\* is fetched and processed by its topic, tx_mutex_put.  A call through a
\* NULL pointer is undefined: it ends in the fault handler, with the mutex
\* held, or the handler goes on.
MqttNotifyCb ==
    /\ pc = "azure_connected"
    /\ \E got \in BOOLEAN, topic \in AzureTopics, faulted \in BOOLEAN :
          LET cb == CallbackFor(topic)
              null == got /\ cb # "none" /\ ~mqtt[cb] /\ ~NullChecked(topic)
          IN  /\ faulted => null
              /\ mqtt' = [mqtt EXCEPT
                            !.azure_mqtt_mutex = IF faulted THEN @ + 1 ELSE @,
                            !.null_called = @ \/ null,
                            !.delivered = IF ~got \/ cb = "none" THEN "dropped"
                                          ELSE IF mqtt[cb] THEN cb
                                          ELSE IF null THEN "null" ELSE "dropped"]
              /\ pc' = IF faulted THEN "azure_fault" ELSE pc
    /\ MqttFrame

\* The broker drops the connection and the client calls mqtt_disconnect_cb;
\* the client has released the TLS session of the connection it closed.
MqttDisconnectCb ==
    /\ pc = "azure_connected"
    /\ mqtt' = [mqtt EXCEPT !.tls_session = FALSE, !.status = "disconnected"]
    /\ pc' = "azure_reconnect"
    /\ MqttFrame

\* One turn of while (azure_mqtt_connect(azure_mqtt) != NX_SUCCESS)
\* tx_thread_sleep(..) in mqtt_disconnect_cb.
Reconnect ==
    /\ pc = "azure_reconnect"
    /\ \E failed \in { ConnectCalls[i] : i \in 1..Len(ConnectCalls) } \cup { "none" } :
          /\ mqtt' = azure_mqtt_connect(mqtt, failed)
          /\ pc' = IF failed = "none" THEN "azure_connected" ELSE "azure_reconnect"
    /\ MqttFrame

NextAzure ==
    RegisterCallback \/ AzureConnect \/ MqttNotifyCb \/ MqttDisconnectCb \/ Reconnect

SpecAzure == InitAzure /\ [][NextAzure]_vars

(***************************************************************************)
(* Properties.                                                             *)
(***************************************************************************)
LoadIntoBuffer == call.op = "load" /\ ~call.is_null
SaveOfRecord   == call.op = "save" /\ ~call.is_null
\* The record in the flash region.
FlashConfig == Field(flash, 0, SizeofConfig)
\* A record as save sends it to the medium: magic and version set.
Stamped(cfg) == SetField(SetField(cfg, OffMagic, CONFIG_MAGIC), OffVersion,
                         LE32(CONFIG_VERSION))
\* Builds in which save writes the medium itself.
WriteThrough(b) ==
    /\ ~b.USE_DELAYED_FLASH_WRITE
    /\ b.FLASH_OPERATIONS_DISABLED => b.USE_EEPROM_EMULATION
\* The backend write of the last call failed.
WriteFailed == call.fault \in { "unlock", "program" }

C2_CachedLoadSkipsMedium ==
    [][ (call'.op = "load" /\ ~call'.is_null /\ g_ram_config_valid)
        => (call'.result = "CONFIG_OK" /\ call'.out = g_ram_config /\ call'.reads = 0) ]_vars

\* C3 (as claimed): when a load has returned a record, the load that follows
\* it directly returns the same bytes and does not read the medium.
C3_SecondLoadIdentical ==
    [][ (LoadIntoBuffer /\ call.result = "CONFIG_OK" /\ call'.op = "load" /\ ~call'.is_null)
        => (call'.out = call.out /\ call'.reads = 0) ]_vars

\* C4 (as claimed): on a build that writes through to a persistent medium, a
\* structurally valid record whose save returned CONFIG_OK is what load
\* returns in the next process (magic and version as save set them).
C4_SaveRebootLoadRoundTrip ==
    [][ ( /\ call.op = "reboot" /\ last_save.saved /\ ~last_save.flipped
          /\ WriteThrough(build)
          /\ StructurallyValid(last_save.config)
          /\ call'.op = "load" /\ ~call'.is_null )
        => ( /\ call'.result = "CONFIG_OK"
             /\ Payload(call'.out) = Payload(Stamped(last_save.config)) ) ]_vars

\* C5 (as claimed): in a fresh process, when a bit of the persisted payload has
\* flipped since the record was saved and the stored crc32 does not match the
\* payload, load answers CONFIG_ERROR_NOT_FOUND and the flipped payload is
\* not handed out.
C5_CorruptRecordRejected ==
    [][ ( /\ call.op = "reboot" /\ last_save.saved /\ last_save.flipped
          /\ crc32(FlashConfig) # calculate_crc32(Payload(FlashConfig))
          /\ call'.op = "load" /\ ~call'.is_null )
        => ( /\ call'.result = "CONFIG_ERROR_NOT_FOUND"
             /\ call'.out # FlashConfig ) ]_vars

\* C6 (as claimed): a save of a null pointer or of a structurally invalid
\* record returns an error, makes no HAL operation, and leaves the medium, the
\* cache and its flag as they were.
C6_InvalidSaveRejected ==
    [][ (call'.op = "save" /\ (call'.is_null \/ ~StructurallyValid(call'.arg)))
        => ( /\ call'.result # "CONFIG_OK"
             /\ call'.ops = 0
             /\ UNCHANGED << flash, g_ram_config, g_ram_config_valid >> ) ]_vars

\* C7 (as claimed): on the write-through build of lines 383-409 (flash
\* operations disabled, EEPROM emulation), after a save of a structurally
\* valid record r whose backend write failed, the cache holds r and is valid,
\* and the next load returns r.
C7_FailedWriteStillServedFromCache ==
    [][ ( /\ SaveOfRecord /\ WriteFailed
          /\ build.FLASH_OPERATIONS_DISABLED /\ WriteThrough(build)
          /\ StructurallyValid(call.arg)
          /\ call'.op = "load" /\ ~call'.is_null )
        => ( /\ g_ram_config_valid /\ g_ram_config = call.arg
             /\ call'.result = "CONFIG_OK" /\ call'.out = call.arg ) ]_vars

\* C8 (as claimed): on a write-through build, a save whose backend write
\* failed (unlock or program) does not return CONFIG_OK.
C8_FailedWriteReported ==
    (SaveOfRecord /\ WriteThrough(build) /\ WriteFailed) => call.result # "CONFIG_OK"

FullWriteOps == SizeofConfig \div 4 + 2

\* C11: in the deferred-write build a flush clears g_config_needs_flash_save
\* only when it returns CONFIG_OK after programming every word without a HAL
\* error; when it returns an error (validation, unlock, program of any word)
\* the flag was set and stays set, a flush never sets the flag, and the
\* flush that follows a failed write goes to the medium again.
C11_FlushClearsDirtyOnlyOnSuccess ==
    [][ (build.USE_DELAYED_FLASH_WRITE /\ call'.op = "delayed_flash_write") =>
          /\ (g_config_needs_flash_save /\ ~g_config_needs_flash_save') =>
                /\ call'.result = "CONFIG_OK"
                /\ call'.fault = "none"
                /\ call'.ops = FullWriteOps
                /\ flash' = FlashProgramLoop(flash, PrepareForFlash(g_ram_config), 0,
                                             NoFault).flash
          /\ call'.result # "CONFIG_OK" =>
                g_config_needs_flash_save /\ g_config_needs_flash_save'
          /\ call'.fault # "none" =>
                call'.result = "CONFIG_ERROR_FLASH" /\ g_config_needs_flash_save'
          /\ ~g_config_needs_flash_save => ~g_config_needs_flash_save'
          /\ (call.op = "delayed_flash_write" /\ call.result = "CONFIG_ERROR_FLASH") =>
                call'.ops > 0 ]_vars

C11_Witness ==
    /\ build.USE_DELAYED_FLASH_WRITE
    /\ call.op = "delayed_flash_write"
    /\ call.fault = "program"
    /\ call.result = "CONFIG_ERROR_FLASH"
    /\ g_config_needs_flash_save
\* C12: in the deferred-write build a flush that finds a dirty, valid cache
\* whose record is not operationally valid returns CONFIG_ERROR_INVALID
\* without any HAL operation and leaves the medium and its lock as they
\* were; a flush that makes a HAL operation has an operationally valid record
\* in the cache.
C12_FlushWritesOnlyUsableRecord ==
    [][ (build.USE_DELAYED_FLASH_WRITE /\ call'.op = "delayed_flash_write") =>
          /\ ( /\ g_config_needs_flash_save /\ g_ram_config_valid
               /\ ~validate_config(g_ram_config) ) =>
                /\ call'.result = "CONFIG_ERROR_INVALID"
                /\ call'.ops = 0
                /\ UNCHANGED << flash, flash_locked >>
          /\ (call'.ops > 0 \/ flash' # flash) => validate_config(g_ram_config) ]_vars

C12_Witness ==
    /\ build.USE_DELAYED_FLASH_WRITE
    /\ call.op = "delayed_flash_write"
    /\ call.result = "CONFIG_ERROR_INVALID"
    /\ g_ram_config_valid /\ g_config_needs_flash_save
    /\ g_ram_config = RecInterval0

\* C13 (as claimed): in the deferred-write build the medium changes only
\* inside config_manager_delayed_flash_write (or by a fault of the medium
\* itself).
C13_OnlyFlushWritesMedium ==
    [][ (build.USE_DELAYED_FLASH_WRITE /\ flash' # flash)
        => call'.op \in { "delayed_flash_write", "bit_flip" } ]_vars

\* C13 (amended): in the deferred-write build a save of a record leaves the
\* medium and its lock unchanged, makes no HAL operation, copies the record
\* into the cache, marks the cache valid and sets the dirty flag; of the
\* API calls only config_manager_delayed_flash_write and
\* config_manager_factory_reset change the medium.
C13_DeferredSaveLeavesMedium ==
    [][ build.USE_DELAYED_FLASH_WRITE =>
          /\ (call'.op = "save" /\ ~call'.is_null) =>
                /\ UNCHANGED << flash, flash_locked >>
                /\ call'.ops = 0
                /\ call'.result = "CONFIG_OK"
                /\ g_ram_config' = call'.arg
                /\ g_ram_config_valid'
                /\ g_config_needs_flash_save'
          /\ flash' # flash =>
                call'.op \in { "delayed_flash_write", "factory_reset", "bit_flip" } ]_vars

C13_Witness ==
    /\ build.USE_DELAYED_FLASH_WRITE
    /\ SaveOfRecord
    /\ g_config_needs_flash_save
    /\ g_ram_config = RecB
    /\ magic(flash) = CONFIG_MAGIC
    /\ Payload(FlashConfig) # Payload(RecB)
\* The build without a persistent medium.
RamOnly(b) ==
    /\ ~b.USE_DELAYED_FLASH_WRITE
    /\ b.FLASH_OPERATIONS_DISABLED
    /\ ~b.USE_EEPROM_EMULATION

C15_CacheFlagTransitions ==
    [][ call'.op # "reboot" =>
          /\ (g_ram_config_valid /\ ~g_ram_config_valid') => call'.op = "factory_reset"
          /\ (~g_ram_config_valid /\ g_ram_config_valid') =>
                \/ call'.op = "load" /\ ~call'.is_null /\ call'.result = "CONFIG_OK"
                \/ call'.op = "save" /\ ~call'.is_null ]_vars

C15_Witness ==
    /\ call.op = "factory_reset"
    /\ call.valid_before
    /\ ~g_ram_config_valid
    /\ build = BuildEeprom
\* C16: config_manager_get_defaults leaves the RAM cache, the validity flag,
\* the dirty flag and the medium unchanged, and in whatever state it is
\* called it writes the same record (and nothing through a null pointer).
C16_GetDefaultsIsPure ==
    [][ call'.op = "get_defaults" =>
          /\ UNCHANGED << g_ram_config, g_ram_config_valid, g_config_needs_flash_save,
                          flash, flash_locked >>
          /\ call'.result = "CONFIG_OK" /\ call'.reads = 0 /\ call'.ops = 0
          /\ call'.out = IF call'.is_null THEN ZeroConfig ELSE DeviceDefaults ]_vars

C16_Witness ==
    /\ call.op = "get_defaults"
    /\ ~call.is_null
    /\ call.out = DeviceDefaults
    /\ g_ram_config_valid
    /\ g_ram_config = RecB
    /\ g_ram_config # DeviceDefaults
    /\ magic(flash) = CONFIG_MAGIC

\* C17 (as claimed): for every blob, each field of the record from
\* config_manager_get_defaults holds the value of the blob's well-formed
\* line for its key, and the compiled-in fallback when the blob has no
\* well-formed line for that key.
C17_DefaultsLayering ==
    pc = "defaults_done" =>
        \A k \in DOMAIN Settings :
            Field(g_device_config, Settings[k].off, Settings[k].size)
                = Layered(conf_lines, k)

\* C17, the blob of the claim's example: it sets mqtt_port and not wifi_mode,
\* and the record has the blob's port and the fallback wifi_mode.
C17_PortWithoutMode ==
    (pc = "defaults_done" /\ conf_lines = << 1 >>) =>
        /\ mqtt_port(g_device_config) = LE16(8883)
        /\ wifi_mode(g_device_config) = LE32(WIFI_MODE_DEFAULT)
\* The record has the header config_manager_validate asks for.
HeaderOk(cfg) == magic(cfg) = CONFIG_MAGIC /\ version(cfg) = LE32(CONFIG_VERSION)

\* The three required text fields are not empty.
RequiredPresent(cfg) ==
    /\ ~StrEmpty(wifi_ssid(cfg))
    /\ ~StrEmpty(mqtt_hostname(cfg))
    /\ ~StrEmpty(mqtt_client_id(cfg))

\* C18: a record with the right magic and version and terminated text passes
\* config_manager_validate whatever its interval; with interval 0 or 3601 it
\* fails validate_config, and with interval 1 or 3600 and the required fields
\* present it passes validate_config too.
C18_StructuralVersusOperational ==
    (pc = "validated" /\ HeaderOk(g_device_config) /\ Terminated(g_device_config)) =>
        /\ verdict.structural
        /\ telemetry_interval(g_device_config) \in { LE32(0), LE32(3601) }
              => ~verdict.operational
        /\ ( /\ telemetry_interval(g_device_config) \in { LE32(1), LE32(3600) }
             /\ RequiredPresent(g_device_config) ) => verdict.operational

C18_Witness ==
    /\ pc = "validated"
    /\ HeaderOk(g_device_config)
    /\ Terminated(g_device_config)
    /\ RequiredPresent(g_device_config)
    /\ telemetry_interval(g_device_config) = LE32(3601)
    /\ verdict.structural
    /\ ~verdict.operational

\* C19 (as claimed): a record with the right magic and version in which some
\* text field is filled to capacity without a NUL fails
\* config_manager_validate.
C19_UnterminatedFailsStructural ==
    (pc = "validated" /\ HeaderOk(g_device_config) /\ ~Terminated(g_device_config)) =>
        ~verdict.structural
\* C20 (as claimed): with a console that never delivers a character and a
\* tick source that keeps advancing, the start-up always gets from the
\* return of the load, whatever it returned, to the network bring-up.
C20_StartupReachesNetwork ==
    (pc = "poll" /\ console = "silent") ~> (pc = "network")

\* C20, the waiting loop alone: with a silent console the wait for a key
\* always ends in its timeout.
C20_WaitTimesOut ==
    (pc = "poll" /\ console = "silent") ~> (pc = "timeout")

\* C20, the start-up with a silent console gets to the network bring-up or
\* ends in the fault handler.
C20_StartupEnds ==
    (pc = "poll" /\ console = "silent") ~> (pc \in { "network", "fault" })

\* C21: in the MQTT client every publication follows a wait of
\* telemetry_interval seconds of the loaded record, and the client is created
\* and connected with the record's client id, hostname and port.
C21_RecordDrivesMqtt ==
    /\ mqtt.published =>
          mqtt.period = U32(telemetry_interval(g_device_config))
    /\ pc \in { "telemetry_wait", "mqtt_failed" } =>
          /\ mqtt.server_port = U16(mqtt_port(g_device_config))
          /\ mqtt.client_id = CStr(mqtt_client_id(g_device_config))
          /\ mqtt.hostname = CStr(mqtt_hostname(g_device_config))

\* The part of C21 that holds: the client id and the hostname are the
\* record's, and the port is the record's or one of the two the TCP test
\* falls back to.
C21_IdentityFromRecord ==
    pc \in { "telemetry_wait", "mqtt_failed" } =>
        /\ mqtt.server_port \in { U16(mqtt_port(g_device_config)), 1883, 8883 }
        /\ mqtt.client_id = CStr(mqtt_client_id(g_device_config))
        /\ mqtt.hostname = CStr(mqtt_hostname(g_device_config))

\* C22: when config_manager_load has returned CONFIG_OK into the caller's
\* buffer, the RAM cache is marked valid and holds exactly the record in the
\* buffer.
C22_LoadMirrorsIntoCache ==
    (call.op = "load" /\ ~call.is_null /\ call.result = "CONFIG_OK") =>
        /\ g_ram_config_valid
        /\ g_ram_config = call.out

\* The same in the builds whose load has a cache: the deferred-write build
\* and the builds without flash operations.
C22_LoadMirrorsWhereCached ==
    ( /\ build.USE_DELAYED_FLASH_WRITE \/ build.FLASH_OPERATIONS_DISABLED
      /\ call.op = "load" /\ ~call.is_null /\ call.result = "CONFIG_OK" ) =>
        /\ g_ram_config_valid
        /\ g_ram_config = call.out

\* C23: when the start-up thread calls wwd_network_init, wifi_ssid,
\* mqtt_hostname and mqtt_client_id of g_device_config are not empty,
\* whether the record came from the load, from the setup dialogue or from
\* the defaults.
C23_NetworkStartsConfigured ==
    pc = "network" =>
        /\ ~StrEmpty(wifi_ssid(g_device_config))
        /\ ~StrEmpty(mqtt_hostname(g_device_config))
        /\ ~StrEmpty(mqtt_client_id(g_device_config))

\* A call that wrote a whole record to the medium, without a fault, over
\* an erased region or after erasing it: the medium then holds the record
\* as written.
WroteWholeRecord ==
    /\ call'.op \in { "save", "prompt_and_store", "delayed_flash_write" }
    /\ call'.ops > 0
    /\ call'.fault = "none"
    /\ call'.result = "CONFIG_OK"
    /\ \/ flash = ErasedRegion
       \/ /\ ~build.FLASH_OPERATIONS_DISABLED /\ ~build.USE_DELAYED_FLASH_WRITE
          /\ ~build.FLASH_ERASE_DISABLED

\* C24: every record written to the medium carries, in crc32, the checksum
\* of the bytes before it, magic and version included.
C24_WrittenRecordCarriesChecksum ==
    [][ WroteWholeRecord =>
          /\ magic(flash') = CONFIG_MAGIC
          /\ version(flash') = LE32(CONFIG_VERSION)
          /\ crc32(flash') = calculate_crc32(Payload(flash')) ]_vars

\* The same for the writes of config_manager_save's flash branch and of
\* config_manager_delayed_flash_write, which do compute the checksum.
C24_FlashPathsCarryChecksum ==
    [][ ( /\ WroteWholeRecord
          /\ ~build.FLASH_OPERATIONS_DISABLED \/ build.USE_DELAYED_FLASH_WRITE ) =>
          /\ magic(flash') = CONFIG_MAGIC
          /\ version(flash') = LE32(CONFIG_VERSION)
          /\ crc32(flash') = calculate_crc32(Payload(flash')) ]_vars

\* The load looked at the medium and the header it found there is good.
HeaderGoodOnMedium ==
    /\ magic(flash) = CONFIG_MAGIC
    /\ version(flash) = LE32(CONFIG_VERSION)

\* C25: a load that reads the medium checks magic, then version, then the
\* checksum; a wrong magic or version ends the checks before the checksum
\* is computed, and a record is accepted from the medium only when all
\* three checks were made and the stored crc32 is the checksum of the bytes
\* before it.  (The medium is as the load found it: a load does not write.)
C25_ChecksInOrderAndComplete ==
    (call.op = "load" /\ call.reads > 0) =>
        /\ call.checks \in { << "magic" >>, << "magic", "version" >>,
                             << "magic", "version", "crc32" >> }
        /\ magic(flash) # CONFIG_MAGIC => call.checks = << "magic" >>
        /\ (magic(flash) = CONFIG_MAGIC /\ version(flash) # LE32(CONFIG_VERSION))
              => call.checks = << "magic", "version" >>
        /\ (HeaderGoodOnMedium /\ call.result = "CONFIG_OK") =>
              /\ call.checks = << "magic", "version", "crc32" >>
              /\ crc32(flash) = calculate_crc32(Payload(flash))

\* The order of the checks alone: magic first, version only after a good
\* magic, the checksum only after a good header.
C25_HeaderBeforeChecksum ==
    (call.op = "load" /\ call.reads > 0) =>
        /\ call.checks \in { << "magic" >>, << "magic", "version" >>,
                             << "magic", "version", "crc32" >> }
        /\ magic(flash) # CONFIG_MAGIC => call.checks = << "magic" >>
        /\ (magic(flash) = CONFIG_MAGIC /\ version(flash) # LE32(CONFIG_VERSION))
              => call.checks = << "magic", "version" >>
        /\ "crc32" \in { call.checks[i] : i \in 1..Len(call.checks) } =>
              HeaderGoodOnMedium

\* C26: between the calls of the API the flash controller is locked: every
\* operation that unlocked it has locked it again before it returned,
\* whether it succeeded or a HAL operation failed.
C26_MediumLockedAcrossReturn == flash_locked

\* A write in which programming a word failed has returned, and the medium
\* is locked.
C26_Witness ==
    /\ call.op \in { "save", "delayed_flash_write" }
    /\ call.fault = "program"
    /\ call.ops > 1
    /\ flash_locked

\* The bytes of the region behind the size bytes written are what they were
\* before the write.
NeighboursKept ==
    \A i \in call.size + 1 .. Len(flash) : flash[i] = call.before[i]

C27_EepromWriteKeepsNeighbours ==
    (pc = "written" /\ call.op = "eeprom_write_data" /\ call.size % 4 # 0)
        => NeighboursKept

\* C28: a record that validate_config accepts (operational validity) is also
\* accepted by config_manager_validate (structural validity).
C28_OperationalImpliesStructural ==
    (pc = "validated" /\ verdict.operational) => verdict.structural

\* The lines of ls that are not a comment, a blank line, a line without '='
\* or a line with an unknown key, in their order.
RECURSIVE WithoutSkipped(_)
WithoutSkipped(ls) ==
    IF Len(ls) = 0 THEN << >>
    ELSE IF ConfLine[Head(ls)].key = "none" THEN WithoutSkipped(Tail(ls))
    ELSE << Head(ls) >> \o WithoutSkipped(Tail(ls))

\* The blob holds a line longer than line[] of parse_config_file.
HasLongLine(ls) ==
    \E i \in 1..Len(ls) : Len(ConfLine[ls[i]].text) > CONFIG_LINE_MAX_LEN - 1

\* C29: the record parsed from a blob is the record parsed from the same
\* blob without its comment lines, blank lines, lines without '=' and lines
\* with an unknown key: such a line changes no field, and the key=value
\* lines before and after it, the last one without a newline included, are
\* applied.
C29_SkippedLinesChangeNothing ==
    pc = "defaults_done" =>
        g_device_config = GetDefaultsFrom(BlobText(WithoutSkipped(conf_lines)))

\* C29, for blobs whose lines fit line[].
C29_ShortLinesSkipped ==
    (pc = "defaults_done" /\ ~HasLongLine(conf_lines)) =>
        g_device_config = GetDefaultsFrom(BlobText(WithoutSkipped(conf_lines)))

\* The characters trim_string removes.
Whitespace == { 32, 9, 13, 10 }

\* The text neither begins nor ends with whitespace.
NoOuterWhitespace(t) ==
    Len(t) = 0 \/ (t[1] \notin Whitespace /\ t[Len(t)] \notin Whitespace)

\* C30: the value that parse_config_file has stored for a key=value line of
\* the blob has no whitespace at its beginning and none at its end.
C30_StoredValueTrimmed ==
    pc = "defaults_done" => NoOuterWhitespace(CStr(wifi_ssid(g_device_config)))

\* C30, for lines with spaces and tabs around the line, the key and the
\* value and a carriage return at the end: the key is matched and the bare
\* value is stored.
C30_SpacesTabsAndLineEndRemoved ==
    /\ (pc = "defaults_done" /\ conf_lines = << 13 >>)
            => wifi_ssid(g_device_config) = StrNCpy(<< 110 >>, CONFIG_SSID_MAX_LEN)
    /\ (pc = "defaults_done" /\ conf_lines = << 4 >>)
            => telemetry_interval(g_device_config) = LE32(60)

\* The dialogue has called config_manager_get_defaults.
InDialogue == pc \in PromptNames \cup { "dialogue_save", "dialogue_done" }

\* C31: the record that config_manager_get_defaults (with parse_config_file)
\* has produced from the blob, and the record at every point of the setup
\* dialogue after it, has a NUL within the capacity of each text field,
\* whatever keys the console delivers; and read_string_from_serial has
\* written no byte at or beyond buffer[max_len].
C31_TextFieldsTerminated ==
    /\ InDialogue => Terminated(g_device_config)
    /\ ~serial.outside

\* The dialogue has returned; the blob's wifi_ssid value was longer than
\* the field, and an answer that filled its buffer was stored in
\* mqtt_hostname.
C31_Witness ==
    /\ pc = "dialogue_done"
    /\ conf_lines = << 14 >>
    /\ CStr(wifi_ssid(g_device_config)) = << 110 >>
    /\ CStr(mqtt_hostname(g_device_config)) = << 49 >>

\* C32 (as claimed): config_manager_wait_for_user_input always returns,
\* whatever the console does: from every turn of its loop the wait gets to
\* its timeout (false) or to the setup (true).
C32_WaitAlwaysReturns ==
    (pc = "poll") ~> (pc \in { "timeout", "setup" })

\* C32, the deadline: while the wait is in its loop, the time elapsed on the
\* tick counter, taken as the unsigned difference, is never more than the
\* timeout, one period of HAL_Delay and the scheduling lag of the two steps.
C32_DeadlineKept ==
    pc \in { "poll", "delay" } =>
        Elapsed(tick, start_time) <= TimeoutTicks + 2 * MaxLag

\* C32, the key: the wait that has received its one character is in the
\* blocking read, and stays there while the UART holds no second character.
C32_BlockedAfterOneKey ==
    [][(pc = "getchar" /\ console # "key") => pc' = "getchar"]_vars

\* C33 (as claimed): when the operator answers every prompt of
\* config_manager_prompt_and_store with the empty line, the record the
\* function leaves in *config is the record that was passed in.
C33_EmptyAnswersKeepPassedRecord ==
    (pc = "dialogue_done" /\ ~serial.typed) => g_device_config = serial.passed

\* C33, what the dialogue keeps: with every answer empty the record is the
\* one config_manager_get_defaults wrote at the start of the dialogue.
C33_EmptyAnswersGiveDefaults ==
    (pc = "dialogue_done" /\ ~serial.typed) =>
        g_device_config = GetDefaultsFrom(BlobText(conf_lines))

\* C34 (as claimed): in the build that programs the flash without erasing
\* it, after a save that returned CONFIG_OK the medium holds exactly the
\* record that save sent to it, whatever was saved or cleared before (no
\* operation of the flash controller has failed).
C34_MediumHoldsLastSave ==
    (build = BuildEeprom /\ faults = 0 /\ SaveOfRecord /\ call.result = "CONFIG_OK") =>
        FlashConfig = Stamped(call.arg)

\* C34, what the medium holds in that build: a save or a factory reset
\* never sets a bit of the medium that was clear before the call.
C34_ProgramOnlyClearsBits ==
    [][(build = BuildEeprom /\ call'.op \in { "save", "factory_reset" }) =>
          \A i \in 1..RegionSize : BitAnd(flash'[i], flash[i], 8) = flash'[i]]_vars

C36_DirtyRecordFlushedOnceConnected ==
    pc = "mqtt_entry" => ~g_config_needs_flash_save

\* C36, what the thread does: no step of mqtt_thread_entry changes the
\* medium or clears the dirty flag in the build that defers the write.
C36_ThreadNeverFlushes ==
    [][build = BuildDelayed =>
          /\ flash' = flash
          /\ g_config_needs_flash_save => g_config_needs_flash_save']_vars

\* C37: azure_iot_mqtt_entry calls nxd_mqtt_client_connect at most three
\* times, with the timeouts 5 s, 10 s and 30 s in this order; it makes no
\* further attempt after a success; and when all three fail it returns the
\* status of the last one without subscribing or entering the telemetry
\* loop.
C37_ConnectAtMostThreeTimes ==
    /\ mqtt.connects = SubSeq(<< 5, 10, 30 >>, 1, Len(mqtt.connects))
    /\ Len(mqtt.connects) = mqtt.connection_attempts + (IF mqtt.connected THEN 1 ELSE 0)
    /\ (mqtt.subscribed \/ pc \in { "subscribe", "telemetry_wait" }) => mqtt.connected
    /\ (pc = "returned" /\ Len(mqtt.connects) > 0 /\ ~mqtt.connected) =>
          /\ Len(mqtt.connects) = 3
          /\ mqtt.status \in { "NXD_MQTT_CONNECT_FAILURE", "NXD_MQTT_NOT_CONNECTED",
                                "NXD_MQTT_COMMUNICATION_FAILURE" }
          /\ ~mqtt.subscribed

C37_Witness ==
    /\ pc = "returned"
    /\ mqtt.connects = << 5, 10, 30 >>
    /\ mqtt.status = "NXD_MQTT_NOT_CONNECTED"
    /\ ~mqtt.connected

\* C38 (as claimed): the entry returns NX_DNS_QUERY_FAILED only for a broker
\* text that is a dotted-quad address with a component above 255, never for
\* a hostname.
C38_DnsFailureOnlyForDottedQuad ==
    (pc = "returned" /\ mqtt.status = "NX_DNS_QUERY_FAILED") => IsDottedQuad(mqtt.hostname)

\* C38, the DNS loop: the query is made at most three times, with the
\* timeouts 5 s, 10 s and 15 s, and not again after a success; after three
\* failures the address is 192.168.1.100 and the entry goes on; a text from
\* which sscanf does not convert four numbers never ends in
\* NX_DNS_QUERY_FAILED.
C38_DnsAtMostThreeThenFallback ==
    /\ mqtt.dns_queries = SubSeq(<< 5, 10, 15 >>, 1, Len(mqtt.dns_queries))
    /\ Len(mqtt.dns_queries) \in { mqtt.retry, mqtt.retry + 1 }
    /\ (pc # "dns" /\ mqtt.retry = 3) => mqtt.server_ip = << 192, 168, 1, 100 >>
    /\ (pc = "returned" /\ Len(ScanQuad(mqtt.hostname, 1, 1)) < 4) =>
          mqtt.status # "NX_DNS_QUERY_FAILED"

\* C39 (as claimed): mqtt_notify_cb never calls through a callback pointer
\* that is NULL: a message whose callback is not registered is dropped.
C39_NeverCallsNullCallback ==
    ~mqtt.null_called

\* C39, what the handler keeps: a direct method or a cloud-to-device message
\* reaches its callback only when that is registered and is dropped
\* otherwise, and every path on which the handler returns has released the
\* mutex.
C39_CheckedCallbacksAndMutex ==
    /\ mqtt.delivered \in { "cb_ptr_mqtt_invoke_direct_method", "cb_ptr_mqtt_c2d_message" } =>
          mqtt[mqtt.delivered]
    /\ pc # "azure_fault" => mqtt.azure_mqtt_mutex = 0

\* C40 (as claimed): a call of azure_mqtt_connect that fails leaves no TLS
\* session allocated, and no call creates a session while an earlier one is
\* allocated.
C40_FailedConnectLeavesNoSession ==
    /\ pc \in { "azure_failed", "azure_reconnect" } => ~mqtt.tls_session
    /\ ~mqtt.created_over

\* C40, the failures that do delete the session: after a failure of the
\* login, the DNS query, the connect or one of the first three
\* subscriptions no session is allocated.
C40_EarlierFailuresDeleteSession ==
    mqtt.status \in DeletesOnFailure => ~mqtt.tls_session

====
